---- MODULE Spec2Model ----
(***************************************************************************)
(* WeatherStationDataBridge: the sync orchestration engine.                *)
(*                                                                         *)
(* One sync cycle (orchestrator.execute_sync_cycle) runs one               *)
(* sync_station coroutine per configured station pair on a single asyncio  *)
(* event loop, under asyncio.Semaphore(2).  A coroutine gives up the loop  *)
(* only where it awaits something that is not ready: a locked semaphore,   *)
(* or asyncio.sleep inside retry_with_backoff.  The fetch and the send are *)
(* plain blocking calls (httpx.Client), so they never yield.               *)
(*                                                                         *)
(* Python values: None is the empty tuple and a present Optional value x   *)
(* is <<x>>; a str is a tuple of its parts; a dict whose code only uses    *)
(* .get, item assignment and .clear is a total function holding None for   *)
(* absent keys.                                                            *)
(***************************************************************************)
EXTENDS Integers, Sequences, FiniteSets, TLC

\* ------------------------------------------------------------------ bounds

MaxCycles == 2        \* sync cycles the executor is invoked for
MaxPairs == 3         \* station pairs of a configuration
MaxTs == 2            \* distinct observation timestamps the source returns
MaxAttempts == 4      \* largest max_attempts retry_with_backoff is given

Stations == {"A", "B"}
Timestamps == 1..MaxTs
Tasks == 1..MaxPairs

\* ----------------------------------------------------------- Python values

None == <<>>
Some(x) == <<x>>
Val(v) == v[1]

\* str(): a str is the tuple of its parts; it is empty iff every part is "".
NonEmptyStr(s) == \E k \in DOMAIN s : s[k] # ""

\* 2 ** n
RECURSIVE Pow2(_)
Pow2(n) == IF n <= 0 THEN 1 ELSE 2 * Pow2(n - 1)

\* ------------------------------------------------------- models.py: errors

ExceptionBase(type) ==
    CASE type \in {"APIConnectionError", "AuthenticationError",
                   "StationNotFound", "RateLimitExceeded"} -> "APIError"
      [] type = "Exception" -> "BaseException"
      [] type \in {"CancelledError", "KeyboardInterrupt"} -> "BaseException"
      [] OTHER -> "Exception"

\* isinstance(e, cls) over the class chain type -> ... -> BaseException
IsInstance(e, cls) ==
    LET b1 == ExceptionBase(e.type)
        b2 == IF b1 = "BaseException" THEN b1 ELSE ExceptionBase(b1)
    IN  cls \in {e.type, b1, b2, "BaseException"}

Raise(type, msg) == [type |-> type, msg |-> msg, cause |-> None]
RaiseFrom(type, msg, cause) == [type |-> type, msg |-> msg, cause |-> cause]
Str(e) == e.msg

\* --------------------------------------------------- models.py: data models

\* Variant: a WeatherObservation declaring the km/h wind fields the
\* transformer reads, in place of the m/s ones.
WeatherObservationFieldsKmh ==
    {"station_id", "timestamp", "temperature_c", "temperature_f",
     "wind_speed_kmh", "wind_speed_mph", "wind_direction_deg",
     "wind_gust_kmh", "wind_gust_mph", "humidity_percent", "dewpoint_c",
     "dewpoint_f", "pressure_pa", "pressure_mbar", "pressure_inhg",
     "precipitation_mm", "precipitation_in", "uv_index"}

\* The fields class WeatherObservation declares.
WeatherObservationFields ==
    {"station_id", "timestamp", "temperature_c", "temperature_f",
     "wind_speed_mps", "wind_speed_mph", "wind_direction_deg",
     "wind_gust_mps", "wind_gust_mph", "humidity_percent", "dewpoint_c",
     "dewpoint_f", "pressure_pa", "pressure_mbar", "pressure_inhg",
     "precipitation_mm", "precipitation_in", "uv_index"}

\* WeatherObservation(**kw): pydantic keeps the declared fields (default
\* None) and ignores any other keyword (the default extra = "ignore").
WeatherObservation(kw) ==
    [f \in WeatherObservationFields |->
        IF f \in DOMAIN kw THEN kw[f] ELSE None]

\* observation.<name>: an attribute the model does not declare raises.
HasAttr(o, name) == name \in DOMAIN o
AttributeError(name) ==
    Raise("AttributeError",
          <<"'WeatherObservation' object has no attribute '", name, "'">>)

SyncResult(station_id, success, error_message, observations_sent) ==
    [station_id |-> station_id, success |-> success,
     error_message |-> error_message,
     observations_sent |-> observations_sent]

Configuration(wu_station_ids, windy_station_ids, retry_attempts, retry_delay_seconds) ==
    [wu_station_ids |-> wu_station_ids,
     windy_station_ids |-> windy_station_ids,
     retry_attempts |-> retry_attempts,
     retry_delay_seconds |-> retry_delay_seconds]

DefaultRetryAttempts == 3
DefaultRetryDelaySeconds == 5

\* ------------------------------------------------- wu_client.py: the fetch

\* What the source API answers: status 0 stands for a transport failure
\* (httpx.RequestError, a timeout); observations is the JSON list.
WUPayload(ts, temp, windSpeed, humidity, precipTotal) ==
    [obsTimeUtc |-> ts, metric_temp |-> temp, metric_windSpeed |-> windSpeed,
     humidity |-> humidity, metric_precipTotal |-> precipTotal]
WUResponse(status, observations) ==
    [status |-> status, observations |-> observations]

Raised(e) == [raised |-> Some(e), value |-> None]
Returned(v) == [raised |-> None, value |-> Some(v)]

fetch_weather_underground_data(station_id, response) ==
    IF response.status = 0 THEN
        Raised(Raise("APIConnectionError",
               <<"Error connecting to Weather Underground API: ", "transport">>))
    ELSE IF response.status = 401 THEN
        Raised(Raise("AuthenticationError",
               <<"Invalid Weather Underground API key">>))
    ELSE IF response.status = 404 THEN
        Raised(Raise("StationNotFound",
               <<"Station ", station_id, " not found">>))
    ELSE IF response.status = 429 THEN
        Raised(Raise("RateLimitExceeded",
               <<"Rate limit exceeded for Weather Underground API">>))
    ELSE IF response.status # 200 THEN
        Raised(Raise("APIConnectionError",
               <<"Weather Underground API returned status ",
                 ToString(response.status)>>))
    ELSE IF response.observations = <<>> THEN
        Raised(Raise("StationNotFound",
               <<"No observations found for station ", station_id>>))
    ELSE LET o == response.observations[1] IN
        IF o.obsTimeUtc = None THEN
            \* KeyError, caught and wrapped
            Raised(Raise("APIConnectionError",
                   <<"Invalid response from Weather Underground API: ",
                     "'obsTimeUtc'">>))
        ELSE
            Returned(WeatherObservation(
                [station_id |-> station_id,
                 timestamp |-> Val(o.obsTimeUtc),
                 temperature_c |-> o.metric_temp,
                 wind_speed_mps |-> o.metric_windSpeed,
                 humidity_percent |-> o.humidity,
                 precipitation_mm |-> o.metric_precipTotal]))

\* --------------------------------- transformer.py: hourly precipitation

\* cache: station id -> None | Some(<<timestamp, precip_mm, precip_in>>).

\* Variant: a store that leaves the entry alone when the reading carries no
\* precipitation value.
StoreReadingIfPresent(cache, station_id, timestamp, precip_mm, precip_in) ==
    IF precip_mm = None /\ precip_in = None THEN cache
    ELSE [cache EXCEPT ![station_id] = Some(<<timestamp, precip_mm, precip_in>>)]

\* Variant: one entry shared by all stations.
StoreReadingShared(cache, station_id, timestamp, precip_mm, precip_in) ==
    [s \in DOMAIN cache |-> Some(<<timestamp, precip_mm, precip_in>>)]

\* Lines 43-47: _precipitation_cache[station_id] = (timestamp, mm, in)
StoreReading(cache, station_id, timestamp, precip_mm, precip_in) ==
    [cache EXCEPT ![station_id] = Some(<<timestamp, precip_mm, precip_in>>)]

\* Variant: a first reading reported as the amount of the hour.
FirstReadingAsDelta(precip_mm, precip_in) == <<precip_mm, precip_in>>

\* Lines 50-52: return None, None
FirstReading(precip_mm, precip_in) == <<None, None>>

\* Lines 58, 74: current is not None and prev is not None
BothPresent(current, previous) == current # None /\ previous # None

\* Variant: a reset test that never fires.
PrecipResetNever(current, previous) == FALSE

\* Lines 59/62, 75/77: the else of current >= prev
PrecipReset(current, previous) ==
    BothPresent(current, previous) /\ Val(current) < Val(previous)

\* Variant: the cumulative value itself as the hourly amount.
PrecipDeltaCumulative(current, previous) ==
    IF BothPresent(current, previous) THEN Some(Val(current)) ELSE None

\* Lines 57-61, 73-76: the hourly delta of one unit
PrecipDelta(current, previous) ==
    IF BothPresent(current, previous)
    THEN Some(Val(current) - Val(previous)) ELSE None

\* Variant: no amount at all unless both units have one.
HourlyPairBothOrNone(hourly_mm, hourly_in) ==
    IF hourly_mm = None \/ hourly_in = None THEN <<None, None>>
    ELSE <<hourly_mm, hourly_in>>

\* Line 81: return hourly_mm, hourly_in
HourlyPair(hourly_mm, hourly_in) == <<hourly_mm, hourly_in>>

\* Returns the cache after the call and the pair the function returns.
calculate_hourly_precipitation(cache, station_id, current_timestamp, current_precip_mm, current_precip_in) ==
    LET previous == cache[station_id]
        stored == StoreReading(cache, station_id, current_timestamp,
                               current_precip_mm, current_precip_in)
        prev_precip_mm == Val(previous)[2]
        prev_precip_in == Val(previous)[3]
    IN  [cache |-> stored,
         result |->
            IF previous = None
                 THEN FirstReading(current_precip_mm, current_precip_in)
            ELSE IF PrecipReset(current_precip_mm, prev_precip_mm)
                 THEN <<None, None>>
            ELSE IF PrecipReset(current_precip_in, prev_precip_in)
                 THEN <<None, None>>
            ELSE HourlyPair(PrecipDelta(current_precip_mm, prev_precip_mm),
                            PrecipDelta(current_precip_in, prev_precip_in))]

\* ------------------------------------------- transformer.py: the transform

\* km/h -> m/s, in thousandths of a m/s (x / 3.6)
KmhToMps(kmh) == (kmh * 10000) \div 36
\* int(x) of a value held in tenths: truncation toward zero
IntTrunc(tenths) ==
    IF tenths >= 0 THEN tenths \div 10 ELSE -((-tenths) \div 10)

\* The attributes the has_data list reads, in evaluation order (the list
\* literal evaluates all four before any() sees them).  wind_speed_kmh is
\* not a field of WeatherObservation, so reading it raises AttributeError
\* for every observation.
HasDataAttrs ==
    <<"temperature_c", "wind_speed_kmh", "humidity_percent", "pressure_mbar">>

\* strftime("%Y-%m-%d %H:%M:%S")
FormatTimestamp(ts) == <<"dateutc ", ToString(ts)>>

\* Returns [raised, value, cache]: the exception or the WindyObservation,
\* and the precipitation cache as the call leaves it.
transform_to_windy_format(observation, station_index, cache) ==
    LET missing == {k \in DOMAIN HasDataAttrs :
                       ~HasAttr(observation, HasDataAttrs[k])}
        first_missing ==
            HasDataAttrs[CHOOSE k \in missing : \A j \in missing : k <= j]
        has_data == \E k \in DOMAIN HasDataAttrs :
                       observation[HasDataAttrs[k]] # None
        precip == calculate_hourly_precipitation(
                      cache, observation.station_id, observation.timestamp,
                      observation.precipitation_mm,
                      observation.precipitation_in)
    IN  IF missing # {} THEN
            [raised |-> Some(AttributeError(first_missing)),
             value |-> None, cache |-> cache]
        ELSE IF ~has_data THEN
            [raised |-> Some(Raise("ValueError",
                <<"Observation must contain at least one measurement">>)),
             value |-> None, cache |-> cache]
        ELSE IF ~HasAttr(observation, "wind_gust_kmh") THEN
            [raised |-> Some(AttributeError("wind_gust_kmh")),
             value |-> None, cache |-> cache]
        ELSE
            [raised |-> None,
             value |-> Some(
                [station_index |-> station_index,
                 timestamp |-> FormatTimestamp(observation.timestamp),
                 temp |-> observation.temperature_c,
                 tempf |-> observation.temperature_f,
                 wind |-> IF observation.wind_speed_kmh = None THEN None
                          ELSE Some(KmhToMps(Val(observation.wind_speed_kmh))),
                 windspeedmph |-> observation.wind_speed_mph,
                 winddir |-> observation.wind_direction_deg,
                 gust |-> IF observation.wind_gust_kmh = None THEN None
                          ELSE Some(KmhToMps(Val(observation.wind_gust_kmh))),
                 windgustmph |-> observation.wind_gust_mph,
                 rh |-> observation.humidity_percent,
                 dewpoint |-> observation.dewpoint_c,
                 pressure |-> None,
                 mbar |-> observation.pressure_mbar,
                 baromin |-> observation.pressure_inhg,
                 precip |-> precip.result[1],
                 rainin |-> precip.result[2],
                 uv |-> IF observation.uv_index = None THEN None
                        ELSE Some(IntTrunc(Val(observation.uv_index)))]),
             cache |-> precip.cache]

\* --------------------------------------------- retry.py: retry_with_backoff

\* The frame of one retry_with_backoff call.  state: "loop" (at the head of
\* the for loop), "sleeping" (awaiting asyncio.sleep), "returned", "raised",
\* or "idle" (no call).  calls and sleeps record what the call did: the
\* outcome of every operation() call and every wait_time slept, in order.
RetryFrame(max_attempts, delay_seconds, operation_name, state) ==
    [max_attempts |-> max_attempts, delay_seconds |-> delay_seconds,
     operation_name |-> operation_name, attempt |-> 1,
     last_exception |-> None, state |-> state,
     returned |-> None, raised |-> None, calls |-> <<>>, sleeps |-> <<>>]

IdleFrame == RetryFrame(0, 0, "", "idle")

retry_enter(max_attempts, delay_seconds, operation_name) ==
    RetryFrame(max_attempts, delay_seconds, operation_name, "loop")

MaxRetriesExceeded(f, last_exception) ==
    RaiseFrom("MaxRetriesExceeded",
              <<f.operation_name, " failed after ", ToString(f.max_attempts),
                " attempts: ">>
              \o (IF last_exception = None THEN <<"None">>
                  ELSE Str(Val(last_exception))),
              last_exception)

\* Variant: a backoff whose exponent is the attempt number.
WaitTimeDoubledFirst(delay_seconds, attempt) == delay_seconds * Pow2(attempt)

\* wait_time = delay_seconds * (2 ** (attempt - 1))
WaitTime(delay_seconds, attempt) == delay_seconds * Pow2(attempt - 1)

\* Variant: a loop that calls the operation once before it gives up.
retry_exhausted_after_call(f) ==
    LET e == Raise("APIConnectionError", <<"Windy API returned status ", "500">>)
        called == [f EXCEPT !.calls = Append(f.calls, Raised(e)),
                            !.last_exception = Some(e)]
    IN  [called EXCEPT !.state = "raised",
                       !.raised = Some(MaxRetriesExceeded(called, Some(e)))]

\* range(1, max_attempts + 1) is exhausted: the raise after the loop
retry_exhausted(f) ==
    [f EXCEPT !.state = "raised",
              !.raised = Some(MaxRetriesExceeded(f, f.last_exception))]

\* Variant: a loop body that keeps the result of operation() and goes on to
\* the next attempt, returning only from the last one.
retry_call_no_early_return(f, outcome) ==
    LET called == [f EXCEPT !.calls = Append(f.calls, outcome)] IN
    IF outcome.raised = None THEN
        IF f.attempt < f.max_attempts
        THEN [called EXCEPT !.attempt = f.attempt + 1]
        ELSE [called EXCEPT !.state = "returned", !.returned = outcome.value]
    ELSE IF f.attempt < f.max_attempts THEN
        [called EXCEPT !.last_exception = outcome.raised,
                       !.state = "sleeping",
                       !.sleeps = Append(f.sleeps,
                                         f.delay_seconds * Pow2(f.attempt - 1))]
    ELSE
        retry_exhausted([called EXCEPT !.last_exception = outcome.raised])

\* One pass of the loop body with the outcome of operation(); a failure on
\* the last attempt falls out of the loop into the raise.
retry_call(f, outcome) ==
    LET called == [f EXCEPT !.calls = Append(f.calls, outcome)] IN
    IF outcome.raised = None THEN
        [called EXCEPT !.state = "returned", !.returned = outcome.value]
    ELSE IF ~IsInstance(Val(outcome.raised), "Exception") THEN
        [called EXCEPT !.state = "raised", !.raised = outcome.raised]
    ELSE IF f.attempt < f.max_attempts THEN
        [called EXCEPT !.last_exception = outcome.raised,
                       !.state = "sleeping",
                       !.sleeps = Append(f.sleeps,
                                         WaitTime(f.delay_seconds, f.attempt))]
    ELSE
        retry_exhausted([called EXCEPT !.last_exception = outcome.raised])

\* asyncio.sleep returns: the next iteration of the for loop
retry_wake(f) == [f EXCEPT !.attempt = f.attempt + 1, !.state = "loop"]

\* --------------------------------------------- windy_client.py: the send

\* send_to_windy returns True or raises, by the HTTP status (0: transport).
send_to_windy(windy_station_id, status) ==
    IF status = 0 THEN
        Raised(Raise("APIConnectionError",
               <<"Error connecting to Windy API: ", "transport">>))
    ELSE IF status = 401 THEN
        Raised(Raise("AuthenticationError", <<"Invalid Windy API key">>))
    ELSE IF status = 400 THEN
        Raised(Raise("InvalidData", <<"Invalid data sent to Windy: ", "body">>))
    ELSE IF status # 200 THEN
        Raised(Raise("APIConnectionError",
               <<"Windy API returned status ", ToString(status)>>))
    ELSE Returned(TRUE)

\* ------------------------------------------------------------------- state

VARIABLES
    config,                 \* the Configuration the executor was created with
    last_sent_timestamps,   \* orchestrator._last_sent_timestamps
    precipitation_cache,    \* transformer._precipitation_cache
    cycle,                  \* sync cycles started so far
    cycle_pc,               \* "idle" | "gather" | "returned" | "raised"
    results,                \* what the last execute_sync_cycle returned
    pc,                     \* per task: where its coroutine stands
    obs,                    \* per task: sync_station's observation
    exc,                    \* per task: the exception its try block raised
    task_result,            \* per task: the SyncResult it returned
    windy_obs,              \* per task: sync_station's windy_obs
    retry,                  \* per task: its retry_with_backoff frame
    sem_value,              \* Semaphore._value
    sem_waiters,            \* Semaphore._waiters, oldest first
    ready,                  \* the event loop's ready queue, oldest first
    running,                \* the task the loop is running, 0 for the loop
    last_marked,            \* per station: the timestamp marked last
    sends,                  \* per station and timestamp: times the send step was entered
    rb,                     \* a retry_with_backoff call made on its own
    last_call,              \* the last call of a transformer function made on its own
    sched,                  \* run_scheduler's frame and scheduler._shutdown_flag
    health,                 \* health._last_sync_time, health._last_sync_success
    clock                   \* datetime.now() for the health status, in seconds

cacheVars == <<last_sent_timestamps, precipitation_cache>>
cycleVars == <<cycle, cycle_pc, results>>
taskVars == <<pc, obs, exc, task_result, windy_obs, retry>>
loopVars == <<sem_value, sem_waiters, ready, running>>
logVars == <<last_marked, sends>>
schedVars == <<sched, health, clock>>
unitVars == <<rb, last_call, schedVars>>
vars == <<config, cacheVars, cycleVars, taskVars, loopVars, logVars, unitVars>>

\* asyncio.Semaphore(2)
SemaphoreValue == 2

\* zip(config.wu_station_ids, config.windy_station_ids)
StationPairs(c) ==
    LET n == IF Len(c.wu_station_ids) <= Len(c.windy_station_ids)
             THEN Len(c.wu_station_ids) ELSE Len(c.windy_station_ids)
    IN  [i \in 1..n |-> <<c.wu_station_ids[i], c.windy_station_ids[i]>>]

NumTasks == Len(StationPairs(config))
station_id(i) == StationPairs(config)[i][1]
windy_station_id(i) == StationPairs(config)[i][2]

\* The configurations load_configuration can return: equally long, non-empty
\* lists; the same source id may be listed more than once.
Configs ==
    {Configuration(wu, [i \in 1..Len(wu) |-> ToString(i)],
                   DefaultRetryAttempts, DefaultRetryDelaySeconds) :
        wu \in UNION {[1..k -> Stations] : k \in 1..MaxPairs}}

\* What the source API is taken to answer to one fetch.
WUResponses ==
    {WUResponse(0, <<>>), WUResponse(404, <<>>)}
    \cup {WUResponse(200, <<WUPayload(Some(ts), temp, None, None, precip)>>) :
            ts \in Timestamps, temp \in {None, Some(20)},
            precip \in {None, Some(3)}}

\* What the target API is taken to answer to one send.
WindyStatuses == {200, 0, 400}

NoTasks == [i \in Tasks |-> None]

\* health.py 12-13: no sync yet.  updates counts the calls of
\* update_health_status.
NoHealth == [last_sync_time |-> None, last_sync_success |-> FALSE,
             updates |-> 0]

\* scheduler.py 11, and run_scheduler before its loop: pc is where the
\* coroutine stands ("loop" | "iteration" | "executing" | "waiting" |
\* "sleeping" | "cooldown" | "exited"), submitted the cycles handed to the
\* executor, raised those that raised, wait the passes left of the wait
\* loop, sleep the seconds of the asyncio.sleep it awaits (0: none).
NewScheduler == [pc |-> "loop", shutdown_flag |-> FALSE, submitted |-> 0,
                 raised |-> 0, wait |-> 0, sleep |-> 0]

InitScheduler ==
    /\ sched = NewScheduler
    /\ health = NoHealth
    /\ clock = 0

InitCaches ==
    /\ last_sent_timestamps = [s \in Stations |-> None]
    /\ precipitation_cache = [s \in Stations |-> None]
    /\ last_marked = [s \in Stations |-> None]
    /\ sends = [s \in Stations |-> [t \in Timestamps |-> 0]]

InitCycle ==
    /\ cycle = 0
    /\ cycle_pc = "idle"
    /\ results = None
    /\ pc = [i \in Tasks |-> "none"]
    /\ obs = NoTasks
    /\ exc = NoTasks
    /\ task_result = NoTasks
    /\ windy_obs = NoTasks
    /\ retry = [i \in Tasks |-> IdleFrame]
    /\ sem_value = SemaphoreValue
    /\ sem_waiters = <<>>
    /\ ready = <<>>
    /\ running = 0

Init ==
    /\ config \in Configs
    /\ InitCaches
    /\ InitCycle
    /\ rb = IdleFrame
    /\ last_call = None
    /\ InitScheduler

\* ------------------------------------------- orchestrator.py: one cycle

\* create_sync_executor's execute(): asyncio.run(execute_sync_cycle(config)).
\* A fresh loop and semaphore; gather wraps one coroutine per pair into a
\* task, scheduled in input order.
StartCycle ==
    /\ cycle_pc \in {"idle", "returned"}
    /\ cycle < MaxCycles
    /\ cycle' = cycle + 1
    /\ cycle_pc' = "gather"
    /\ results' = None
    /\ pc' = [i \in Tasks |-> IF i <= NumTasks THEN "created" ELSE "none"]
    /\ obs' = NoTasks
    /\ exc' = NoTasks
    /\ task_result' = NoTasks
    /\ windy_obs' = NoTasks
    /\ retry' = [i \in Tasks |-> IdleFrame]
    /\ sem_value' = SemaphoreValue
    /\ sem_waiters' = <<>>
    /\ ready' = [i \in 1..NumTasks |-> i]
    /\ running' = 0
    /\ UNCHANGED <<config, cacheVars, last_marked, sends, unitVars>>

\* The event loop between two task steps: it runs the oldest ready task, or
\* finds the sleep of a task over and schedules that task.
Dispatch ==
    /\ cycle_pc = "gather"
    /\ running = 0
    /\ \E i \in Tasks :
         IF ready # <<>> /\ i = Head(ready)
         THEN /\ running' = i
              /\ ready' = Tail(ready)
              /\ UNCHANGED <<pc, retry>>
         ELSE /\ pc[i] = "backoff"
              /\ retry' = [retry EXCEPT ![i] = retry_wake(@)]
              /\ pc' = [pc EXCEPT ![i] = "send"]
              /\ ready' = Append(ready, i)
              /\ running' = running
    /\ UNCHANGED <<config, cacheVars, cycleVars, obs, exc, task_result,
                   windy_obs, sem_value, sem_waiters, logVars, unitVars>>

\* Semaphore.locked()
SemLocked(value, waiters) ==
    value = 0 \/ \E k \in DOMAIN waiters : TRUE

\* Variant: an acquire that takes no permit.
SemAcquireNoPermit(value) == value

\* Semaphore.acquire() on an unlocked semaphore
SemAcquire(value) == value - 1

\* Semaphore._wake_up_next(): the first waiter not yet woken (0: none)
NextWaiter(waiters, pcs) ==
    LET sleeping == {k \in DOMAIN waiters : pcs[waiters[k]] = "sem_wait"}
    IN  IF sleeping = {} THEN 0
        ELSE waiters[CHOOSE k \in sleeping : \A j \in sleeping : k <= j]

\* fut.set_result(True) for waiter w
Woken(pcs, w) == IF w = 0 THEN pcs ELSE [pcs EXCEPT ![w] = "sem_woken"]

\* sync_with_semaphore: async with semaphore (lines 114-116).  An unlocked
\* semaphore is taken without yielding and sync_station starts; a locked one
\* queues the task as a waiter, which yields.  A woken waiter resumes inside
\* acquire(): it leaves the queue, passes a spare permit on, and
\* sync_station starts.
TaskStart(i) ==
    /\ running = i
    /\ pc[i] \in {"created", "sem_woken"}
    /\ IF pc[i] = "sem_woken"
       THEN LET left == SelectSeq(sem_waiters, LAMBDA w : w # i)
                w == IF sem_value > 0 THEN NextWaiter(left, pc) ELSE 0
            IN  /\ sem_waiters' = left
                /\ sem_value' = IF w # 0 THEN sem_value - 1 ELSE sem_value
                /\ pc' = Woken([pc EXCEPT ![i] = "fetch"], w)
                /\ ready' = IF w # 0 THEN Append(ready, w) ELSE ready
                /\ running' = running
       ELSE IF ~SemLocked(sem_value, sem_waiters)
       THEN /\ sem_value' = SemAcquire(sem_value)
            /\ pc' = [pc EXCEPT ![i] = "fetch"]
            /\ UNCHANGED <<sem_waiters, ready, running>>
       ELSE /\ sem_waiters' = Append(sem_waiters, i)
            /\ pc' = [pc EXCEPT ![i] = "sem_wait"]
            /\ running' = 0
            /\ UNCHANGED <<sem_value, ready>>
    /\ UNCHANGED <<config, cacheVars, cycleVars, obs, exc, task_result,
                   windy_obs, retry, logVars, unitVars>>

\* ------------------------------------- orchestrator.py: sync_station

\* One more event for station sid and timestamp t (counted up to 2).
Counted(count, sid, t) ==
    [count EXCEPT ![sid][t] = IF @ < 2 THEN @ + 1 ELSE @]

\* Variant: a fetch that is called again when it raised.
FetchAgain(i) ==
    /\ running = i
    /\ pc[i] = "fetch"
    /\ \E response \in WUResponses :
         LET r == fetch_weather_underground_data(station_id(i), response) IN
         IF r.raised # None
         THEN /\ exc' = [exc EXCEPT ![i] = r.raised]
              /\ pc' = pc
              /\ obs' = obs
         ELSE /\ obs' = [obs EXCEPT ![i] = r.value]
              /\ pc' = [pc EXCEPT ![i] = "dedup"]
              /\ exc' = exc
    /\ UNCHANGED <<config, cacheVars, cycleVars, task_result, windy_obs,
                   retry, loopVars, last_marked, sends, unitVars>>

\* Line 42: the fetch, a blocking call.
Fetch(i) ==
    /\ running = i
    /\ pc[i] = "fetch"
    /\ \E response \in WUResponses :
         LET r == fetch_weather_underground_data(station_id(i), response) IN
         IF r.raised # None
         THEN /\ exc' = [exc EXCEPT ![i] = r.raised]
              /\ pc' = [pc EXCEPT ![i] = "except"]
              /\ obs' = obs
         ELSE /\ obs' = [obs EXCEPT ![i] = r.value]
              /\ pc' = [pc EXCEPT ![i] = "dedup"]
              /\ exc' = exc
    /\ UNCHANGED <<config, cacheVars, cycleVars, task_result, windy_obs,
                   retry, loopVars, last_marked, sends, unitVars>>

\* Variant: a dedup check that looks the timestamp up under any station.
ShouldSkipAnyStation(cache, sid, timestamp) ==
    \E s \in DOMAIN cache : cache[s] = Some(timestamp)

\* Line 46: _last_sent_timestamps.get(station_id) == observation.timestamp
ShouldSkip(cache, sid, timestamp) == cache[sid] = Some(timestamp)

\* Variant: a mark written to the entry of every station.
MarkSentEveryStation(cache, sid, timestamp) ==
    [s \in DOMAIN cache |-> Some(timestamp)]

\* Variant: no mark.
MarkSentNever(cache, sid, timestamp) == cache

\* Line 60: _last_sent_timestamps[station_id] = observation.timestamp
MarkSent(cache, sid, timestamp) == [cache EXCEPT ![sid] = Some(timestamp)]

\* Variant: a skip counted as an observation sent.
SkippedResultCounted(sid) == SyncResult(sid, TRUE, None, 1)

\* Lines 51-56: the SyncResult of a skip
SkippedResult(sid) == SyncResult(sid, TRUE, None, 0)

\* Lines 81-86: the SyncResult of a delivered observation
SentResult(sid) == SyncResult(sid, TRUE, None, 1)

\* Lines 45-56: the dedup check; a skip returns success with nothing sent.
\* Variant: a dedup check after which the task hands control to the event
\* loop before it marks.
DedupCheckYielding(i) ==
    /\ running = i
    /\ pc[i] = "dedup"
    /\ IF ShouldSkip(last_sent_timestamps, station_id(i), Val(obs[i]).timestamp)
       THEN /\ task_result' = [task_result EXCEPT ![i] =
                                 Some(SkippedResult(station_id(i)))]
            /\ pc' = [pc EXCEPT ![i] = "release"]
            /\ UNCHANGED <<running, ready>>
       ELSE /\ pc' = [pc EXCEPT ![i] = "mark"]
            /\ task_result' = task_result
            /\ running' = 0
            /\ ready' = Append(ready, i)
    /\ UNCHANGED <<config, cacheVars, cycleVars, obs, exc, windy_obs, retry,
                   sem_value, sem_waiters, logVars, unitVars>>

DedupCheck(i) ==
    /\ running = i
    /\ pc[i] = "dedup"
    /\ IF ShouldSkip(last_sent_timestamps, station_id(i), Val(obs[i]).timestamp)
       THEN /\ task_result' = [task_result EXCEPT ![i] =
                                 Some(SkippedResult(station_id(i)))]
            /\ pc' = [pc EXCEPT ![i] = "release"]
       ELSE /\ pc' = [pc EXCEPT ![i] = "mark"]
            /\ task_result' = task_result
    /\ UNCHANGED <<config, cacheVars, cycleVars, obs, exc, windy_obs, retry,
                   loopVars, logVars, unitVars>>

\* Variant: a mark after which the task hands control to the event loop.
MarkYielding(i) ==
    /\ running = i
    /\ pc[i] = "mark"
    /\ last_sent_timestamps' =
         MarkSent(last_sent_timestamps, station_id(i), Val(obs[i]).timestamp)
    /\ last_marked' = [last_marked EXCEPT ![station_id(i)] =
                         Some(Val(obs[i]).timestamp)]
    /\ pc' = [pc EXCEPT ![i] = "transform"]
    /\ running' = 0
    /\ ready' = Append(ready, i)
    /\ UNCHANGED <<config, precipitation_cache, cycleVars, obs, exc,
                   task_result, windy_obs, retry, sem_value, sem_waiters,
                   sends, unitVars>>

\* Lines 58-60: the mark, before the transform and the send.
Mark(i) ==
    /\ running = i
    /\ pc[i] = "mark"
    /\ last_sent_timestamps' =
         MarkSent(last_sent_timestamps, station_id(i), Val(obs[i]).timestamp)
    /\ last_marked' = [last_marked EXCEPT ![station_id(i)] =
                         Some(Val(obs[i]).timestamp)]
    /\ pc' = [pc EXCEPT ![i] = "transform"]
    /\ UNCHANGED <<config, precipitation_cache, cycleVars, obs, exc,
                   task_result, windy_obs, retry, loopVars, sends, unitVars>>

\* Lines 62-86: the transform and the send.  At "transform": line 63; when
\* the transform returns, sync_station enters the send step,
\* retry_with_backoff around send_operation.  At "send": one pass of the
\* retry loop (retry.py 37-56) with one blocking send_to_windy call, up to
\* the return (lines 77-86), the raise, or the sleep, where the task yields.
\* As the transform raises for every WeatherObservation, no task reaches
\* "send", and with it "backoff", "sem_wait" and "sem_woken".
TransformAndSend(i) ==
    /\ running = i
    /\ pc[i] \in {"transform", "send"}
    /\ IF pc[i] = "transform"
       THEN LET r == transform_to_windy_format(Val(obs[i]), 0,
                                               precipitation_cache)
            IN  /\ precipitation_cache' = r.cache
                /\ IF r.raised # None
                   THEN /\ exc' = [exc EXCEPT ![i] = r.raised]
                        /\ pc' = [pc EXCEPT ![i] = "except"]
                        /\ UNCHANGED <<windy_obs, retry, sends>>
                   ELSE /\ windy_obs' = [windy_obs EXCEPT ![i] = r.value]
                        /\ retry' = [retry EXCEPT ![i] =
                             retry_enter(config.retry_attempts,
                                         config.retry_delay_seconds,
                                         "send_to_windy")]
                        /\ sends' = Counted(sends, station_id(i),
                                            Val(obs[i]).timestamp)
                        /\ pc' = [pc EXCEPT ![i] = "send"]
                        /\ exc' = exc
                /\ UNCHANGED <<task_result, running>>
       ELSE \E status \in WindyStatuses :
            LET f == IF retry[i].attempt > retry[i].max_attempts
                     THEN retry_exhausted(retry[i])
                     ELSE retry_call(retry[i],
                              send_to_windy(windy_station_id(i), status))
            IN  /\ retry' = [retry EXCEPT ![i] = f]
                /\ CASE f.state = "returned" ->
                          /\ task_result' = [task_result EXCEPT ![i] =
                                               Some(SentResult(station_id(i)))]
                          /\ pc' = [pc EXCEPT ![i] = "release"]
                          /\ UNCHANGED <<exc, running>>
                     [] f.state = "sleeping" ->
                          /\ pc' = [pc EXCEPT ![i] = "backoff"]
                          /\ running' = 0
                          /\ UNCHANGED <<exc, task_result>>
                     [] OTHER ->
                          /\ exc' = [exc EXCEPT ![i] = f.raised]
                          /\ pc' = [pc EXCEPT ![i] = "except"]
                          /\ UNCHANGED <<task_result, running>>
                /\ UNCHANGED <<precipitation_cache, windy_obs, sends>>
    /\ UNCHANGED <<config, last_sent_timestamps, cycleVars, obs, sem_value,
                   sem_waiters, ready, last_marked, unitVars>>

\* Variants: handlers that catch the API errors only, or the retrier's
\* error only.
CatchesAPIError(e) == IsInstance(e, "APIError")
CatchesMaxRetries(e) == IsInstance(e, "MaxRetriesExceeded")

\* Line 88: except Exception
Catches(e) == IsInstance(e, "Exception")

\* Variant: a failed result that counts the observation as sent.
FailedResultCounted(sid, e) == SyncResult(sid, FALSE, Some(Str(e)), 1)

\* Lines 90-96: the SyncResult the handler returns
FailedResult(sid, e) == SyncResult(sid, FALSE, Some(Str(e)), 0)

\* Lines 88-96: the handler; an exception it does not catch leaves
\* sync_station.
Except(i) ==
    /\ running = i
    /\ pc[i] = "except"
    /\ IF Catches(Val(exc[i]))
       THEN /\ task_result' = [task_result EXCEPT ![i] =
                                 Some(FailedResult(station_id(i), Val(exc[i])))]
            /\ pc' = [pc EXCEPT ![i] = "release"]
       ELSE /\ pc' = [pc EXCEPT ![i] = "raising"]
            /\ task_result' = task_result
    /\ UNCHANGED <<config, cacheVars, cycleVars, obs, exc, windy_obs, retry,
                   loopVars, logVars, unitVars>>

\* sync_station has returned or raised: async with releases the semaphore
\* (release() wakes the oldest waiter) and the task is done; the locals of
\* its frame are gone.
Release(i) ==
    /\ running = i
    /\ pc[i] \in {"release", "raising"}
    /\ LET w == NextWaiter(sem_waiters, pc) IN
         /\ sem_value' = IF w # 0 THEN sem_value ELSE sem_value + 1
         /\ pc' = Woken([pc EXCEPT ![i] = IF pc[i] = "release" THEN "done"
                                          ELSE "failed"], w)
         /\ ready' = IF w # 0 THEN Append(ready, w) ELSE ready
    /\ running' = 0
    /\ obs' = [obs EXCEPT ![i] = None]
    /\ exc' = [exc EXCEPT ![i] = None]
    /\ windy_obs' = [windy_obs EXCEPT ![i] = None]
    /\ UNCHANGED <<config, cacheVars, cycleVars, task_result, retry,
                   sem_waiters, logVars, unitVars>>

\* Variant: a gather that hands back the successful results only.
gather_successes(task_results, n) ==
    SelectSeq([i \in 1..n |-> Val(task_results[i])], LAMBDA r : r.success)

\* asyncio.gather(*tasks): the results in input order
gather(task_results, n) == [i \in 1..n |-> Val(task_results[i])]

\* Lines 123-131: gather is over.  With return_exceptions=False the first
\* exception of a task leaves gather and execute_sync_cycle; otherwise,
\* once every task is done, the cycle returns the results.
GatherDone ==
    /\ cycle_pc = "gather"
    /\ running = 0
    /\ IF \E i \in 1..NumTasks : pc[i] = "failed"
       THEN /\ cycle_pc' = "raised"
            /\ results' = results
       ELSE /\ \A i \in 1..NumTasks : pc[i] = "done"
            /\ results' = Some(gather(task_result, NumTasks))
            /\ cycle_pc' = "returned"
    /\ UNCHANGED <<config, cacheVars, cycle, taskVars, loopVars, logVars, unitVars>>

\* ------------------------------------------------------- specifications

TaskStep(i) ==
    \/ TaskStart(i)
    \/ Fetch(i)
    \/ DedupCheck(i)
    \/ Mark(i)
    \/ TransformAndSend(i)
    \/ Except(i)
    \/ Release(i)

CycleStep == Dispatch \/ (\E i \in Tasks : TaskStep(i)) \/ GatherDone

Next == StartCycle \/ CycleStep

Spec == Init /\ [][Next]_vars

\* The event loop keeps running whatever is ready, blocking calls return or
\* raise, and a sleep ends: a cycle that can take a step takes one.
SpecLive == Spec /\ WF_vars(CycleStep)

\* ------------------------------------ retry_with_backoff on its own

\* What operation() can do: return a value, or raise.
Outcomes ==
    {Returned(TRUE), Returned(FALSE),
     Raised(Raise("APIConnectionError", <<"Windy API returned status ", "500">>)),
     Raised(Raise("InvalidData", <<"Invalid data sent to Windy: ", "body">>))}

RetryDelays == {0, 1, DefaultRetryDelaySeconds}

InitRetry ==
    /\ config \in {c \in Configs : Len(c.wu_station_ids) = 1}
    /\ InitCaches
    /\ InitCycle
    /\ rb \in {retry_enter(m, d, "operation") :
                m \in 0..MaxAttempts, d \in RetryDelays}
    /\ last_call = None
    /\ InitScheduler

\* retry.py 37-56: one pass of the for loop up to the return, the raise or
\* the sleep; with the range exhausted, the raise after the loop.
RetryRun ==
    /\ rb.state = "loop"
    /\ IF rb.attempt > rb.max_attempts
       THEN rb' = retry_exhausted(rb)
       ELSE \E outcome \in Outcomes : rb' = retry_call(rb, outcome)
    /\ UNCHANGED <<config, cacheVars, cycleVars, taskVars, loopVars, logVars,
                   last_call, schedVars>>

\* retry.py 52: asyncio.sleep(wait_time) returns.
RetryWake ==
    /\ rb.state = "sleeping"
    /\ rb' = retry_wake(rb)
    /\ UNCHANGED <<config, cacheVars, cycleVars, taskVars, loopVars, logVars,
                   last_call, schedVars>>

NextRetry == RetryRun \/ RetryWake

SpecRetry == InitRetry /\ [][NextRetry]_vars

\* ------------------------- the precipitation functions on their own

\* Cumulative readings: mm and inches (in tenths of an inch), or absent.
PrecipMm == {None, Some(2), Some(5), Some(15)}
PrecipIn == {None, Some(1), Some(2)}

\* The timestamps of the calls: the first and the last one.
CallTimestamps == {1, MaxTs}

InitUnit ==
    /\ config = Configuration(<<"A">>, <<"1">>, DefaultRetryAttempts,
                              DefaultRetryDelaySeconds)
    /\ InitCaches
    /\ InitCycle
    /\ rb = IdleFrame
    /\ last_call = None
    /\ InitScheduler

\* One call calculate_hourly_precipitation(station_id, timestamp, mm, in);
\* last_call keeps its arguments, the entry it found and what it returned.
PrecipCall ==
    /\ \E sid \in Stations, ts \in CallTimestamps,
          mm \in PrecipMm, inch \in PrecipIn :
         LET r == calculate_hourly_precipitation(precipitation_cache, sid, ts,
                                                 mm, inch)
         IN  /\ precipitation_cache' = r.cache
             /\ last_call' = Some([fn |-> "calculate_hourly_precipitation",
                                   station_id |-> sid, timestamp |-> ts,
                                   precip_mm |-> mm, precip_in |-> inch,
                                   previous |-> precipitation_cache[sid],
                                   result |-> r.result])
    /\ UNCHANGED <<config, last_sent_timestamps, cycleVars, taskVars, loopVars,
                   logVars, rb, schedVars>>

\* Variant: a clear that drops the entry of one station only.
clear_one_station(cache) ==
    [s \in DOMAIN cache |-> IF s = "A" THEN None ELSE cache[s]]

\* transformer.py 84-87: _precipitation_cache.clear()
clear_precipitation_cache(cache) == [s \in DOMAIN cache |-> None]

PrecipClear ==
    /\ last_call # None
    /\ precipitation_cache' = clear_precipitation_cache(precipitation_cache)
    /\ last_call' = Some([fn |-> "clear_precipitation_cache",
                          before |-> precipitation_cache])
    /\ UNCHANGED <<config, last_sent_timestamps, cycleVars, taskVars, loopVars,
                   logVars, rb, schedVars>>

NextPrecip == PrecipCall \/ PrecipClear

SpecPrecip == InitUnit /\ [][NextPrecip]_vars

\* ------------------------------ transform_to_windy_format on its own

\* The keywords a caller builds a WeatherObservation from.  wind_speed_kmh
\* is the keyword the transformer's callers use for the speed in km/h;
\* wind_speed_mps is the declared field wu_client.py fills from the
\* source's metric windSpeed.  Speeds in km/h and mph, UV in tenths.
ObservationKeywords ==
    {[station_id |-> sid, timestamp |-> ts, temperature_c |-> temp,
      wind_speed_kmh |-> kmh, wind_speed_mps |-> mps, wind_speed_mph |-> mph,
      humidity_percent |-> hum, pressure_mbar |-> mbar, uv_index |-> uv,
      precipitation_mm |-> mm] :
        sid \in Stations, ts \in {1}, temp \in {None, Some(20)},
        kmh \in {None, Some(18), Some(25)}, mps \in {None, Some(18)},
        mph \in {None, Some(11)}, hum \in {None, Some(50)},
        mbar \in {None, Some(1013)}, uv \in {None, Some(35)},
        mm \in {None, Some(5)}}

\* One call transform_to_windy_format(WeatherObservation(**kw), 0);
\* last_call keeps the keywords, the observation and the outcome.
TransformCall ==
    /\ \E kw \in ObservationKeywords :
         LET o == WeatherObservation(kw)
             r == transform_to_windy_format(o, 0, precipitation_cache)
         IN  /\ precipitation_cache' = r.cache
             /\ last_call' = Some([fn |-> "transform_to_windy_format",
                                   kw |-> kw, observation |-> o,
                                   previous |-> precipitation_cache[o.station_id],
                                   raised |-> r.raised, value |-> r.value])
    /\ UNCHANGED <<config, last_sent_timestamps, cycleVars, taskVars, loopVars,
                   logVars, rb, schedVars>>

NextTransform == TransformCall

SpecTransform == InitUnit /\ [][NextTransform]_vars

\* ------------------------------------- config.py: load_configuration

\* The longest value of a station id variable, in characters.
MaxRaw == 3

\* An environment value is None (unset) or the tuple of its characters.
RECURSIVE Join(_)
Join(cs) == IF cs = <<>> THEN "" ELSE Head(cs) \o Join(Tail(cs))

\* str.split(sep): the segments between separators, empty ones included
RECURSIVE Split(_, _)
Split(cs, sep) ==
    IF \A k \in DOMAIN cs : cs[k] # sep THEN <<cs>>
    ELSE LET k == CHOOSE i \in DOMAIN cs :
                      cs[i] = sep /\ \A j \in 1..(i - 1) : cs[j] # sep
         IN  <<SubSeq(cs, 1, k - 1)>> \o Split(SubSeq(cs, k + 1, Len(cs)), sep)

\* str.strip(): no leading and no trailing blank
RECURSIVE Strip(_)
Strip(cs) ==
    IF cs = <<>> THEN cs
    ELSE IF Head(cs) = " " THEN Strip(Tail(cs))
    ELSE IF cs[Len(cs)] = " " THEN Strip(SubSeq(cs, 1, Len(cs) - 1))
    ELSE cs

\* Variant: the items as they stand between the commas, blanks kept.
ParseStationIdsUntrimmed(raw) ==
    LET items == SelectSeq(Split(raw, ","), LAMBDA sid : Strip(sid) # <<>>)
    IN  [k \in DOMAIN items |-> Join(items[k])]

\* Lines 47-52: [sid.strip() for sid in raw.split(",") if sid.strip()]
ParseStationIds(raw) ==
    LET items == SelectSeq(Split(raw, ","), LAMBDA sid : Strip(sid) # <<>>)
    IN  [k \in DOMAIN items |-> Join(Strip(items[k]))]

Digits == <<"0", "1", "2", "3", "4", "5", "6", "7", "8", "9">>
IsDigit(c) == \E d \in DOMAIN Digits : Digits[d] = c
DigitValue(c) == (CHOOSE d \in DOMAIN Digits : Digits[d] = c) - 1

RECURSIVE DecimalValue(_)
DecimalValue(cs) ==
    IF cs = <<>> THEN 0
    ELSE 10 * DecimalValue(SubSeq(cs, 1, Len(cs) - 1)) + DigitValue(cs[Len(cs)])

\* int(s) for a decimal literal with an optional sign: the value, or
\* ValueError
ParseInt(cs) ==
    LET t == Strip(cs)
        signed == t # <<>> /\ Head(t) \in {"-", "+"}
        digits == IF signed THEN Tail(t) ELSE t
    IN
    IF digits # <<>> /\ \A k \in DOMAIN digits : IsDigit(digits[k])
    THEN Returned(IF signed /\ Head(t) = "-" THEN 0 - DecimalValue(digits)
                  ELSE DecimalValue(digits))
    ELSE Raised(Raise("ValueError",
                      <<"invalid literal for int() with base 10: ", Join(cs)>>))

LowerCase == <<"a", "b", "c", "d", "e", "f", "g", "h", "i", "j", "k", "l", "m",
               "n", "o", "p", "q", "r", "s", "t", "u", "v", "w", "x", "y", "z">>
UpperCase == <<"A", "B", "C", "D", "E", "F", "G", "H", "I", "J", "K", "L", "M",
               "N", "O", "P", "Q", "R", "S", "T", "U", "V", "W", "X", "Y", "Z">>

\* str.upper()
Upper(cs) ==
    [k \in DOMAIN cs |->
        IF \E l \in DOMAIN LowerCase : LowerCase[l] = cs[k]
        THEN UpperCase[CHOOSE l \in DOMAIN LowerCase : LowerCase[l] = cs[k]]
        ELSE cs[k]]

\* Line 75
valid_log_levels == {"DEBUG", "INFO", "WARNING", "ERROR"}

\* os.getenv(name, default)
GetEnv(env, name, default) == IF env[name] = None THEN default ELSE Val(env[name])

\* Python's truth value of an Optional[str]
Truthy(v) == v # None /\ Val(v) # <<>>

\* Lines 31-93.  The three int(...) calls of lines 69-72 stand outside the
\* try block, so their ValueError leaves the function as it is.
load_configuration(env) ==
    IF ~Truthy(env.WINDY_API_KEY) THEN
        Raised(Raise("MissingConfiguration",
                     <<"WINDY_API_KEY environment variable is required">>))
    ELSE IF ~Truthy(env.WU_API_KEY) THEN
        Raised(Raise("MissingConfiguration",
                     <<"WU_API_KEY environment variable is required">>))
    ELSE IF env.WU_STATION_IDS = None THEN
        Raised(Raise("MissingConfiguration",
                     <<"WU_STATION_IDS environment variable is required">>))
    ELSE IF env.WINDY_STATION_IDS = None THEN
        Raised(Raise("MissingConfiguration",
                     <<"WINDY_STATION_IDS environment variable is required">>))
    ELSE
    LET wu_station_ids == ParseStationIds(Val(env.WU_STATION_IDS))
        windy_station_ids == ParseStationIds(Val(env.WINDY_STATION_IDS))
        sync_interval_minutes ==
            ParseInt(GetEnv(env, "SYNC_INTERVAL_MINUTES", <<"5">>))
        log_level == Join(Upper(GetEnv(env, "LOG_LEVEL", <<"I", "N", "F", "O">>)))
        retry_attempts == ParseInt(GetEnv(env, "RETRY_ATTEMPTS", <<"3">>))
        retry_delay_seconds ==
            ParseInt(GetEnv(env, "RETRY_DELAY_SECONDS", <<"5">>))
    IN  IF wu_station_ids = <<>> THEN
            Raised(Raise("InvalidConfiguration",
                <<"WU_STATION_IDS must contain at least one station ID">>))
        ELSE IF windy_station_ids = <<>> THEN
            Raised(Raise("InvalidConfiguration",
                <<"WINDY_STATION_IDS must contain at least one station ID">>))
        ELSE IF Len(wu_station_ids) # Len(windy_station_ids) THEN
            Raised(Raise("InvalidConfiguration",
                <<"WU_STATION_IDS (", ToString(Len(wu_station_ids)),
                  ") and WINDY_STATION_IDS (",
                  ToString(Len(windy_station_ids)),
                  ") must have the same number of stations">>))
        ELSE IF sync_interval_minutes.raised # None THEN sync_interval_minutes
        ELSE IF retry_attempts.raised # None THEN retry_attempts
        ELSE IF retry_delay_seconds.raised # None THEN retry_delay_seconds
        ELSE IF log_level \notin valid_log_levels THEN
            Raised(Raise("InvalidConfiguration",
                <<"LOG_LEVEL must be one of ",
                  "['DEBUG', 'INFO', 'WARNING', 'ERROR']", ", got ",
                  log_level>>))
        ELSE Returned(Configuration(wu_station_ids, windy_station_ids,
                                    Val(retry_attempts.value),
                                    Val(retry_delay_seconds.value)))

\* The strings of at most n characters over an alphabet.
Strings(alphabet, n) == UNION {[1..k -> alphabet] : k \in 0..n}

\* The environments load_configuration is called in.
Environments ==
    [WINDY_API_KEY : {None, Some(<<>>), Some(<<"k">>)},
     WU_API_KEY : {None, Some(<<"k">>)},
     WU_STATION_IDS :
         {None} \cup {Some(cs) : cs \in Strings({",", " ", "A", "B"}, MaxRaw)},
     WINDY_STATION_IDS :
         {None} \cup {Some(cs) : cs \in Strings({",", "1", "2"}, MaxRaw)},
     SYNC_INTERVAL_MINUTES : {None},
     LOG_LEVEL : {None, Some(<<"d", "e", "b", "u", "g">>),
                  Some(<<"l", "o", "u", "d">>)},
     RETRY_ATTEMPTS : {None, Some(<<"1", "0">>), Some(<<"x">>)},
     RETRY_DELAY_SECONDS : {None}]

\* The call load_configuration() a process makes when it starts, in some
\* environment.
LoadCall ==
    /\ last_call = None
    /\ \E env \in Environments :
         LET r == load_configuration(env) IN
         last_call' = Some([fn |-> "load_configuration", env |-> env,
                            raised |-> r.raised, value |-> r.value])
    /\ UNCHANGED <<config, cacheVars, cycleVars, taskVars, loopVars, logVars,
                   rb, schedVars>>

NextConfig == LoadCall

SpecConfig == InitUnit /\ [][NextConfig]_vars

\* ------------------------------------- scheduler.py: run_scheduler

\* The most passes the wait loop is taken to make (int(wait_time)).
MaxWait == 2

\* health.py 16-25: update_health_status(success); now is the cycle the
\* call follows, standing for datetime.now().
update_health_status(h, success, now) ==
    [last_sync_time |-> Some(now), last_sync_success |-> success,
     updates |-> h.updates + 1]

\* Line 65: asyncio.sleep(1) in the wait loop
PollSeconds == 1

\* Line 70: asyncio.sleep(10) in the handler
CooldownSeconds == 10

\* Variant: a loop that does not look at the flag.
LoopConditionTrue(flag) == TRUE

\* Line 40: while not _shutdown_flag
LoopCondition(flag) == ~flag

\* Variant: all(r.success for r in results)
all_success(rs) == \A k \in DOMAIN rs : rs[k].success

\* Variant: any(r.observations_sent > 0 for r in results)
any_sent(rs) == \E k \in DOMAIN rs : rs[k].observations_sent > 0

\* Line 55: any(r.success for r in results)
any_success(rs) == \E k \in DOMAIN rs : rs[k].success

\* Variant: a handler that ends the scheduler.
on_executor_error_exit(s) == [s EXCEPT !.pc = "exited", !.raised = @ + 1]

\* Lines 67-70: except Exception: log, then await asyncio.sleep(10)
on_executor_error(s) ==
    [s EXCEPT !.pc = "cooldown", !.raised = @ + 1, !.sleep = CooldownSeconds]

\* Variant: a wait loop that does not look at the flag.
WaitBrokenNever(flag) == FALSE

\* Lines 63-64: if _shutdown_flag: break
WaitBroken(flag) == flag

\* Lines 14-18: the signal handler; it can run between any two steps.
handle_shutdown_signal ==
    /\ sched' = [sched EXCEPT !.shutdown_flag = TRUE]
    /\ UNCHANGED <<config, cacheVars, cycleVars, taskVars, loopVars, logVars,
                   rb, last_call, health,
                   clock>>

\* Line 40: the loop condition; the loop body is entered or the scheduler
\* exits (line 72).
SchedLoop ==
    /\ sched.pc = "loop"
    /\ IF LoopCondition(sched.shutdown_flag)
       THEN /\ sched.submitted < MaxCycles
            /\ sched' = [sched EXCEPT !.pc = "iteration"]
       ELSE sched' = [sched EXCEPT !.pc = "exited"]
    /\ UNCHANGED <<config, cacheVars, cycleVars, taskVars, loopVars, logVars,
                   rb, last_call, health,
                   clock>>

\* Variant: the executor is handed the cycle and not awaited.
SchedSubmitNoAwait ==
    /\ sched.pc = "iteration"
    /\ \E w \in 0..MaxWait :
         sched' = [sched EXCEPT !.pc = "waiting", !.submitted = @ + 1,
                                !.wait = w]
    /\ UNCHANGED <<config, cacheVars, cycleVars, taskVars, loopVars, logVars,
                   rb, last_call, health,
                   clock>>

\* Lines 42-47: loop.run_in_executor(None, sync_executor), awaited.
SchedSubmit ==
    /\ sched.pc = "iteration"
    /\ sched' = [sched EXCEPT !.pc = "executing", !.submitted = @ + 1]
    /\ UNCHANGED <<config, cacheVars, cycleVars, taskVars, loopVars, logVars,
                   rb, last_call, health,
                   clock>>

\* The executor's thread calls sync_executor for a cycle handed to it.
ExecutorRun ==
    /\ cycle < sched.submitted
    /\ StartCycle

\* Lines 47-60 and 67-70: the executor's future is done.  With results:
\* the health update and wait_time = max(0, interval_seconds - elapsed);
\* with an exception: the handler, which sleeps 10 seconds.
SchedResume ==
    /\ sched.pc = "executing"
    /\ cycle = sched.submitted
    /\ IF cycle_pc = "raised"
       THEN /\ sched' = on_executor_error(sched)
            /\ health' = health
       ELSE /\ cycle_pc = "returned"
            /\ health' = update_health_status(health,
                                              any_success(Val(results)), cycle)
            /\ \E w \in 0..MaxWait :
                 sched' = [sched EXCEPT !.pc = "waiting", !.wait = w]
    /\ UNCHANGED <<config, cacheVars, cycleVars, taskVars, loopVars, logVars,
                   rb, last_call, clock>>

\* Lines 62-65: one pass of the wait loop: with the range exhausted or the
\* flag set the loop is left, otherwise asyncio.sleep(1) is awaited, and
\* when it is over the next pass begins.  Line 70: the sleep of the handler
\* is over.
SchedWait ==
    /\ sched.pc \in {"waiting", "sleeping", "cooldown"}
    /\ sched' =
         CASE sched.pc = "cooldown" ->
                [sched EXCEPT !.pc = "loop", !.sleep = 0]
           [] sched.pc = "sleeping" ->
                [sched EXCEPT !.pc = "waiting", !.wait = @ - 1, !.sleep = 0]
           [] OTHER ->
                IF sched.wait = 0 \/ WaitBroken(sched.shutdown_flag)
                THEN [sched EXCEPT !.pc = "loop", !.wait = 0]
                ELSE [sched EXCEPT !.pc = "sleeping", !.sleep = PollSeconds]
    /\ UNCHANGED <<config, cacheVars, cycleVars, taskVars, loopVars, logVars,
                   rb, last_call, health,
                   clock>>

NextScheduler ==
    \/ handle_shutdown_signal
    \/ SchedLoop
    \/ SchedSubmit
    \/ ExecutorRun
    \/ CycleStep
    \/ SchedResume
    \/ SchedWait

\* The scheduler is started on a configuration of one or two pairs.
InitRun ==
    /\ Init
    /\ Len(config.wu_station_ids) <= 2

SpecScheduler == InitRun /\ [][NextScheduler]_vars

\* ------------------------------ a configuration with no send attempt

\* Environments that set RETRY_ATTEMPTS to zero or less.
ZeroRetryEnvironments ==
    {env \in [WINDY_API_KEY : {Some(<<"k">>)}, WU_API_KEY : {Some(<<"k">>)},
              WU_STATION_IDS : {Some(<<"A">>), Some(<<"A", ",", "A">>),
                                Some(<<"A", ",", "B">>)},
              WINDY_STATION_IDS : {Some(<<"1">>), Some(<<"1", ",", "2">>)},
              SYNC_INTERVAL_MINUTES : {None}, LOG_LEVEL : {None},
              RETRY_ATTEMPTS : {Some(<<"0">>), Some(<<"-", "1">>)},
              RETRY_DELAY_SECONDS : {None}] :
        load_configuration(env).raised = None}

\* The process has loaded its configuration from such an environment; rb is
\* the call retry_with_backoff(send_operation, config.retry_attempts,
\* config.retry_delay_seconds, ...) of orchestrator.py 70-75.
InitZeroRetry ==
    /\ config \in {Val(load_configuration(env).value) :
                      env \in ZeroRetryEnvironments}
    /\ InitCaches
    /\ InitCycle
    /\ rb = retry_enter(config.retry_attempts, config.retry_delay_seconds,
                        "send_to_windy")
    /\ last_call = None
    /\ InitScheduler

NextZeroRetry == RetryRun \/ StartCycle \/ CycleStep

SpecZeroRetry == InitZeroRetry /\ [][NextZeroRetry]_vars

\* ------------------------------------ health.py: the health status

\* The most steps the clock is taken to make.
MaxTicks == 5

\* The step of the clock: the default sync interval of 5 minutes, in seconds.
TickSeconds == 300

\* health.py 41: time_since_sync > 900
UnhealthyAfterSeconds == 900

\* health.py 28-44: get_health_status() at time now
get_health_status(h, now) ==
    IF h.last_sync_time = None
    THEN [healthy |-> TRUE, message |-> <<"Service starting, no sync yet">>]
    ELSE LET time_since_sync == now - Val(h.last_sync_time) IN
         IF time_since_sync > UnhealthyAfterSeconds /\ ~h.last_sync_success
         THEN [healthy |-> FALSE,
               message |-> <<"No successful sync in ",
                             ToString(time_since_sync), "s">>]
         ELSE [healthy |-> TRUE,
               message |-> <<"Last sync ", ToString(time_since_sync),
                             "s ago">>]

\* Time passes.
Tick ==
    /\ clock < MaxTicks * TickSeconds
    /\ clock' = clock + TickSeconds
    /\ UNCHANGED <<config, cacheVars, cycleVars, taskVars, loopVars, logVars,
                   rb, last_call, sched, health>>

\* scheduler.py 55-56: a cycle has completed and the scheduler calls
\* update_health_status(any_success), at most once in one instant.
\* last_call keeps the call, and when the last call with success = true
\* was made.
HealthUpdate ==
    /\ health.last_sync_time # Some(clock)
    /\ \E success \in BOOLEAN :
         /\ health' = update_health_status(health, success, clock)
         /\ last_call' =
              Some([fn |-> "update_health_status", success |-> success,
                    last_success |->
                        IF success THEN Some(clock)
                        ELSE IF last_call = None THEN None
                        ELSE Val(last_call).last_success])
    /\ UNCHANGED <<config, cacheVars, cycleVars, taskVars, loopVars, logVars,
                   rb, sched, clock>>

NextHealth == Tick \/ HealthUpdate

SpecHealth == InitUnit /\ [][NextHealth]_vars

\* ----------------------- run_scheduler with any callable as executor

\* What a SyncResult of station sid can be.
StationResults(sid) ==
    {SkippedResult(sid), SentResult(sid),
     FailedResult(sid, AttributeError("wind_speed_kmh"))}

\* The lists of results a call of sync_executor can return.
ResultLists ==
    {rs \in [1..NumTasks -> UNION {StationResults(sid) : sid \in Stations}] :
        \A k \in 1..NumTasks : rs[k].station_id = station_id(k)}

\* The executor's thread calls sync_executor, which returns a list of
\* results or raises.
CallableRun ==
    /\ cycle < sched.submitted
    /\ cycle' = cycle + 1
    /\ \/ /\ cycle_pc' = "raised"
          /\ results' = None
       \/ /\ cycle_pc' = "returned"
          /\ \E rs \in ResultLists : results' = Some(rs)
    /\ UNCHANGED <<config, cacheVars, taskVars, loopVars, logVars, unitVars>>

SchedulerStep == SchedLoop \/ SchedSubmit \/ SchedResume \/ SchedWait

NextCallable == handle_shutdown_signal \/ SchedulerStep \/ CallableRun

SpecCallable == InitRun /\ [][NextCallable]_vars

\* The event loop runs the scheduler's coroutine whenever it can go on, a
\* sleep ends, and a call of the executor ends.
SpecCallableLive ==
    SpecCallable /\ WF_vars(SchedulerStep) /\ WF_vars(CallableRun)

\* ------------------------------------------- __init__.py: test_sync

\* Variant: a non-zero status only when no station succeeded.
exit_status_any(rs) ==
    LET successful == Cardinality({k \in DOMAIN rs : rs[k].success})
    IN  IF successful = 0 THEN 1 ELSE 0

\* Lines 113-117: sys.exit(1) if successful < len(results); a return of the
\* command is status 0.
exit_status(rs) ==
    LET successful == Cardinality({k \in DOMAIN rs : rs[k].success})
    IN  IF successful < Len(rs) THEN 1 ELSE 0

\* The frame of one test_sync command.
TestSyncFrame(at, raised, status) ==
    [fn |-> "test_sync", pc |-> at, raised |-> raised, exit_status |-> status]

\* The environments test_sync is run in: those that make load_configuration
\* raise, and those it loads the configuration from.
TestEnvironments ==
    {env \in Environments :
        /\ env.WINDY_API_KEY \in {None, Some(<<"k">>)}
        /\ env.WU_API_KEY = Some(<<"k">>)
        /\ env.LOG_LEVEL \in {None, Some(<<"l", "o", "u", "d">>)}
        /\ env.RETRY_ATTEMPTS \in {None, Some(<<"x">>)}
        /\ env.WU_STATION_IDS \in
             {None, Some(<<>>), Some(<<"A">>), Some(<<"B">>),
              Some(<<"A", ",", "A">>), Some(<<"A", ",", "B">>)}
        /\ env.WINDY_STATION_IDS \in {Some(<<"1">>), Some(<<"1", ",", "2">>)}}

\* Line 89: load_configuration; an exception goes to the handler of lines
\* 119-121, which exits with status 1.  Lines 98: the executor is created
\* for the configuration loaded.
TestLoad ==
    /\ last_call = None
    /\ \E env \in TestEnvironments :
         LET r == load_configuration(env) IN
         IF r.raised # None
         THEN last_call' = Some(TestSyncFrame("exited", r.raised, Some(1)))
         ELSE /\ config = Val(r.value)
              /\ last_call' = Some(TestSyncFrame("execute", None, None))
    /\ UNCHANGED <<config, cacheVars, cycleVars, taskVars, loopVars, logVars,
                   rb, schedVars>>

\* The command's frame.
InTestSync(at) ==
    /\ last_call # None
    /\ Val(last_call).fn = "test_sync"
    /\ Val(last_call).pc = at

\* Line 99: results = sync_executor()
TestExecute ==
    /\ InTestSync("execute")
    /\ cycle = 0
    /\ StartCycle

\* Lines 99-121: sync_executor has returned or raised; the exit status.
TestExit ==
    /\ InTestSync("execute")
    /\ cycle = 1
    /\ cycle_pc \in {"returned", "raised"}
    /\ last_call' =
         IF cycle_pc = "raised"
         THEN Some(TestSyncFrame("exited",
                   Some(Raise("Exception", <<"sync cycle raised">>)), Some(1)))
         ELSE Some(TestSyncFrame("exited", None,
                                 Some(exit_status(Val(results)))))
    /\ UNCHANGED <<config, cacheVars, cycleVars, taskVars, loopVars, logVars,
                   rb, schedVars>>

NextTestSync == TestLoad \/ TestExecute \/ CycleStep \/ TestExit

SpecTestSync == InitRun /\ [][NextTestSync]_vars

\* ------------------------------------------------------------ properties

AttributeErrorMessage == Str(AttributeError("wind_speed_kmh"))

\* Task i got past the dedup check and the mark and failed in the transform.
FailedInTransform(i) ==
    task_result[i] = Some(SyncResult(station_id(i), FALSE,
                                     Some(AttributeErrorMessage), 0))

Decided(i) == running = i /\ obs[i] # None
Skipped(i) ==
    /\ Decided(i)
    /\ pc[i] = "release"
    /\ task_result[i] = Some(SkippedResult(station_id(i)))
NotSkipped(i) == Decided(i) /\ pc[i] = "mark"

C2_SkipIffMarked ==
    /\ last_sent_timestamps = last_marked
    /\ \A i \in Tasks :
         /\ Skipped(i) =>
              last_marked[station_id(i)] = Some(Val(obs[i]).timestamp)
         /\ NotSkipped(i) =>
              last_marked[station_id(i)] # Some(Val(obs[i]).timestamp)

C2_MarkOwnStationOnly ==
    \A s \in Stations :
        last_sent_timestamps'[s] # last_sent_timestamps[s] =>
            \E i \in Tasks :
                /\ running = i
                /\ pc[i] = "mark"
                /\ station_id(i) = s
                /\ last_sent_timestamps'[s] = Some(Val(obs[i]).timestamp)

\* C2: the dedup check skips the fetched observation iff its timestamp
\* equals the timestamp marked last for the same station, and a mark changes
\* the entry of the marking sync's own station only.
C2_DedupPerStation == []C2_SkipIffMarked /\ [][C2_MarkOwnStationOnly]_vars

\* A sync is not skipped although another station holds its timestamp, and
\* its own station holds a mark too.
C2_Witness ==
    \E i \in Tasks :
        /\ NotSkipped(i)
        /\ last_marked[station_id(i)] # None
        /\ \E s \in Stations \ {station_id(i)} :
               last_marked[s] = Some(Val(obs[i]).timestamp)

\* C4: sync_station never raises; a failure of any step is returned as a
\* SyncResult with success = false and the failure's non-empty message.
C4_NeverRaises ==
    /\ cycle_pc # "raised"
    /\ \A i \in Tasks :
         /\ pc[i] \notin {"raising", "failed"}
         /\ pc[i] = "except" => exc[i] # None
         /\ (pc[i] = "release" /\ exc[i] # None) =>
              /\ task_result[i] # None
              /\ Val(task_result[i]).success = FALSE
              /\ Val(task_result[i]).observations_sent = 0
              /\ Val(task_result[i]).error_message = Some(Str(Val(exc[i])))
              /\ NonEmptyStr(Str(Val(exc[i])))

\* A sync whose transform raised is about to return its failed result,
\* after a sync of the same cycle returned one for a failed fetch.
C4_Witness ==
    \E i, j \in Tasks :
        /\ pc[i] = "release"
        /\ exc[i] # None
        /\ Val(exc[i]).type = "AttributeError"
        /\ pc[j] = "done"
        /\ Val(task_result[j]).success = FALSE
        /\ ~FailedInTransform(j)

\* C5: a cycle returns one SyncResult per configured pair, result i
\* carrying the source station id of pair i.
C5_OneResultPerPairInOrder ==
    cycle_pc = "returned" =>
        /\ results # None
        /\ Len(Val(results)) = Len(config.wu_station_ids)
        /\ \A i \in DOMAIN Val(results) :
               Val(results)[i].station_id = config.wu_station_ids[i]

\* A cycle over MaxPairs pairs of both stations returned, with failed and
\* successful results.
C5_Witness ==
    /\ cycle_pc = "returned"
    /\ Len(Val(results)) = MaxPairs
    /\ \E i, j \in DOMAIN Val(results) :
           /\ Val(results)[i].station_id # Val(results)[j].station_id
           /\ Val(results)[i].success
           /\ ~Val(results)[j].success

\* The sync_station invocations started and not yet returned.
InFlight ==
    {i \in Tasks : pc[i] \in {"fetch", "dedup", "mark", "transform", "send",
                              "backoff", "except", "release", "raising"}}
PermitHolders == InFlight \cup {i \in Tasks : pc[i] = "sem_woken"}

\* C6: at most 2 sync_station invocations are in flight at any time, for
\* any number of pairs; every invocation in flight holds one of the 2
\* permits of the semaphore.
C6_AtMostTwoInFlight ==
    /\ Cardinality(InFlight) <= 2
    /\ cycle_pc = "gather" => Cardinality(PermitHolders) + sem_value = 2

\* More than 2 pairs: a sync is in flight, one has returned, one has not
\* started.
C6_Witness ==
    /\ NumTasks > 2
    /\ InFlight # {}
    /\ \E i, j \in Tasks : pc[i] = "done" /\ pc[j] = "created"

AllProcessed ==
    \A i \in 1..NumTasks : pc[i] = "done" /\ task_result[i] # None

\* C7: a cycle that has started eventually returns, every pair processed.
C7_CycleReturns ==
    (cycle_pc = "gather") ~> (cycle_pc = "returned" /\ AllProcessed)

\* A cycle over MaxPairs pairs returned though every sync of it failed.
C7_Witness ==
    /\ cycle_pc = "returned"
    /\ NumTasks = MaxPairs
    /\ AllProcessed
    /\ \A i \in 1..NumTasks : ~Val(task_result[i]).success

\* The observation task i fetched carries a measurement.
HasMeasurement(i) ==
    obs[i] # None /\ Val(obs[i]).temperature_c # None

\* C8, the end-to-end case: when the sync of station A has failed and the
\* sync of another station B fetched a new observation with a measurement
\* and no send of it failed, B's result is a success with
\* observations_sent = 1.
C8_SiblingSucceeds ==
    \A a, b \in 1..NumTasks :
        ( /\ station_id(a) # station_id(b)
          /\ pc[a] = "done"
          /\ Val(task_result[a]).success = FALSE
          /\ pc[b] = "release"
          /\ HasMeasurement(b)
          /\ task_result[b] # Some(SkippedResult(station_id(b)))
          /\ retry[b].raised = None )
        => /\ Val(task_result[b]).success
           /\ Val(task_result[b]).observations_sent = 1

AllCallsFailed(f) == \A k \in DOMAIN f.calls : f.calls[k].raised # None
Finished(f) == f.state \in {"returned", "raised"}

\* C9: with max_attempts >= 1 and an operation failing on every call,
\* retry_with_backoff makes exactly max_attempts calls and max_attempts - 1
\* sleeps, the k-th of delay_seconds * 2^(k-1), none after the last call,
\* and raises MaxRetriesExceeded carrying the last error.
C9_AlwaysFailing ==
    (rb.max_attempts >= 1 /\ AllCallsFailed(rb)) =>
        /\ Len(rb.calls) <= rb.max_attempts
        /\ \A k \in DOMAIN rb.sleeps :
               rb.sleeps[k] = rb.delay_seconds * Pow2(k - 1)
        /\ rb.state = "loop" => Len(rb.sleeps) = Len(rb.calls)
        /\ rb.state = "sleeping" =>
               /\ Len(rb.sleeps) = Len(rb.calls)
               /\ Len(rb.calls) < rb.max_attempts
        /\ Finished(rb) =>
               /\ Len(rb.calls) = rb.max_attempts
               /\ Len(rb.sleeps) = rb.max_attempts - 1
               /\ rb.returned = None
               /\ rb.raised # None
               /\ Val(rb.raised).type = "MaxRetriesExceeded"
               /\ Val(rb.raised).cause = rb.calls[rb.max_attempts].raised

\* Three failed calls with delay 5: sleeps of 5 and 10, then the raise.
C9_Witness ==
    /\ rb.max_attempts = 3
    /\ rb.delay_seconds = 5
    /\ AllCallsFailed(rb)
    /\ rb.state = "raised"
    /\ rb.sleeps = <<5, 10>>
    /\ Len(rb.calls) = 3

\* C10: when the k-th call is the first to succeed, retry_with_backoff
\* returns its result after exactly k calls and k - 1 sleeps; no call or
\* sleep follows and MaxRetriesExceeded is not raised.
C10_ReturnsOnFirstSuccess ==
    \A k \in DOMAIN rb.calls :
        rb.calls[k].raised = None =>
            /\ k = Len(rb.calls)
            /\ k <= rb.max_attempts
            /\ rb.state = "returned"
            /\ rb.returned = rb.calls[k].value
            /\ Len(rb.sleeps) = k - 1
            /\ rb.raised = None

\* The third call succeeds after two failures, with attempts to spare.
C10_Witness ==
    /\ Len(rb.calls) = 3
    /\ rb.max_attempts > 3
    /\ rb.calls[3].raised = None
    /\ rb.state = "returned"

\* The last call made on its own was calculate_hourly_precipitation.
IsPrecipCall ==
    last_call # None /\ Val(last_call).fn = "calculate_hourly_precipitation"
PrecipArgs ==
    <<Val(last_call).timestamp, Val(last_call).precip_mm,
      Val(last_call).precip_in>>
PrevMm == Val(Val(last_call).previous)[2]
PrevIn == Val(Val(last_call).previous)[3]
HasPrevious == IsPrecipCall /\ Val(last_call).previous # None

\* current and previous are both present and current >= previous
NonDecreasing(current, previous) ==
    BothPresent(current, previous) /\ Val(current) >= Val(previous)
Lower(current, previous) ==
    BothPresent(current, previous) /\ Val(current) < Val(previous)

\* C11: the first calculate_hourly_precipitation call for a station with no
\* stored entry returns (None, None), whatever the current values, and
\* stores (timestamp, mm, in) as the station's entry.
C11_FirstReading ==
    (IsPrecipCall /\ Val(last_call).previous = None) =>
        /\ Val(last_call).result = <<None, None>>
        /\ precipitation_cache[Val(last_call).station_id] = Some(PrecipArgs)

\* A first call with both cumulative values present.
C11_Witness ==
    /\ IsPrecipCall
    /\ Val(last_call).previous = None
    /\ Val(last_call).precip_mm = Some(15)
    /\ Val(last_call).precip_in = Some(2)
    /\ precipitation_cache[Val(last_call).station_id] = Some(PrecipArgs)

\* C12 as stated: whenever both mm values are present and current_mm >=
\* previous_mm the hourly mm is their difference, and likewise for inches,
\* whatever the other unit does.
C12_DeltaPerUnitAlways ==
    HasPrevious =>
        /\ NonDecreasing(Val(last_call).precip_mm, PrevMm) =>
             Val(last_call).result[1] =
                 Some(Val(Val(last_call).precip_mm) - Val(PrevMm))
        /\ NonDecreasing(Val(last_call).precip_in, PrevIn) =>
             Val(last_call).result[2] =
                 Some(Val(Val(last_call).precip_in) - Val(PrevIn))

\* C12, amended: whenever both values of a unit are present and the current
\* one is >= the previous one, and the other unit is not lower than its
\* previous value, the hourly amount of the unit is the difference (0 when
\* unchanged).
C12_DeltaUnlessOtherUnitReset ==
    HasPrevious =>
        /\ ( /\ NonDecreasing(Val(last_call).precip_mm, PrevMm)
             /\ ~Lower(Val(last_call).precip_in, PrevIn) ) =>
             Val(last_call).result[1] =
                 Some(Val(Val(last_call).precip_mm) - Val(PrevMm))
        /\ ( /\ NonDecreasing(Val(last_call).precip_in, PrevIn)
             /\ ~Lower(Val(last_call).precip_mm, PrevMm) ) =>
             Val(last_call).result[2] =
                 Some(Val(Val(last_call).precip_in) - Val(PrevIn))

\* Cumulative 5 mm then 15 mm: 10 mm, with the inches unchanged: 0.
C12_Witness ==
    /\ HasPrevious
    /\ PrevMm = Some(5)
    /\ Val(last_call).precip_mm = Some(15)
    /\ Val(last_call).result[1] = Some(10)
    /\ PrevIn = Val(last_call).precip_in
    /\ Val(last_call).result[2] = Some(0)

\* C13: when the current value is lower than the previous one in either
\* unit, the result is (None, None) and the stored entry is the new reading.
C13_ResetDetection ==
    ( /\ HasPrevious
      /\ \/ Lower(Val(last_call).precip_mm, PrevMm)
         \/ Lower(Val(last_call).precip_in, PrevIn) ) =>
        /\ Val(last_call).result = <<None, None>>
        /\ precipitation_cache[Val(last_call).station_id] = Some(PrecipArgs)

\* The inches fell while the mm rose: no amount for either unit.
C13_Witness ==
    /\ HasPrevious
    /\ Lower(Val(last_call).precip_in, PrevIn)
    /\ NonDecreasing(Val(last_call).precip_mm, PrevMm)
    /\ Val(last_call).precip_mm # PrevMm
    /\ Val(last_call).result = <<None, None>>

\* C14: after every calculate_hourly_precipitation call the station's entry
\* is exactly the (timestamp, mm, in) passed to the call.
C14_StoresTheCall ==
    IsPrecipCall =>
        precipitation_cache[Val(last_call).station_id] = Some(PrecipArgs)

\* A call with no precipitation value at all replaced an entry that had
\* both.
C14_Witness ==
    /\ HasPrevious
    /\ PrevMm # None
    /\ PrevIn # None
    /\ Val(last_call).precip_mm = None
    /\ Val(last_call).precip_in = None
    /\ Val(last_call).timestamp # Val(Val(last_call).previous)[1]
    /\ precipitation_cache[Val(last_call).station_id] = Some(PrecipArgs)

\* C15: with a prior entry, a unit whose current or previous value is
\* absent gets None, and the other unit, when both its values are present
\* and non-decreasing, still gets its delta.
C15_PerUnitAbsence ==
    HasPrevious =>
        /\ ~BothPresent(Val(last_call).precip_mm, PrevMm) =>
             /\ Val(last_call).result[1] = None
             /\ NonDecreasing(Val(last_call).precip_in, PrevIn) =>
                  Val(last_call).result[2] =
                      Some(Val(Val(last_call).precip_in) - Val(PrevIn))
        /\ ~BothPresent(Val(last_call).precip_in, PrevIn) =>
             /\ Val(last_call).result[2] = None
             /\ NonDecreasing(Val(last_call).precip_mm, PrevMm) =>
                  Val(last_call).result[1] =
                      Some(Val(Val(last_call).precip_mm) - Val(PrevMm))

\* The previous inches are absent: None for inches, 3 mm for mm.
C15_Witness ==
    /\ HasPrevious
    /\ PrevIn = None
    /\ Val(last_call).precip_in # None
    /\ Val(last_call).result = <<Some(3), None>>

\* The last call made on its own was transform_to_windy_format.
IsTransformCall ==
    last_call # None /\ Val(last_call).fn = "transform_to_windy_format"

\* The wind speed the call was given: the caller's km/h keyword, or the
\* value wu_client.py stores from the source's metric windSpeed.
GivenWindSpeed ==
    IF Val(last_call).kw.wind_speed_kmh # None
    THEN Val(last_call).kw.wind_speed_kmh
    ELSE Val(last_call).kw.wind_speed_mps

\* Temperature, wind speed, humidity and pressure are all absent.
NoMeasurement ==
    /\ Val(last_call).kw.temperature_c = None
    /\ GivenWindSpeed = None
    /\ Val(last_call).kw.humidity_percent = None
    /\ Val(last_call).kw.pressure_mbar = None

\* C16: transform_to_windy_format fails with the invalid-observation error
\* (ValueError) whenever temperature, wind speed, humidity and pressure are
\* all absent, whatever other fields are present.
C16_NoMeasurementIsInvalid ==
    (IsTransformCall /\ NoMeasurement) =>
        /\ Val(last_call).raised # None
        /\ Val(Val(last_call).raised).type = "ValueError"

\* C17: for every observation with at least one of temperature, wind speed,
\* humidity or pressure, transform_to_windy_format returns a
\* WindyObservation and does not fail.
C17_TransformReturns ==
    (IsTransformCall /\ ~NoMeasurement) =>
        /\ Val(last_call).raised = None
        /\ Val(last_call).value # None

\* C18: the returned wind is the given speed in km/h divided by 3.6 (18
\* km/h gives 5.0 m/s), an absent speed stays absent, and the mph value is
\* passed through.
C18_WindConverted ==
    (IsTransformCall /\ ~NoMeasurement) =>
        /\ Val(last_call).value # None
        /\ Val(Val(last_call).value).wind =
             (IF GivenWindSpeed = None THEN None
              ELSE Some(KmhToMps(Val(GivenWindSpeed))))
        /\ Val(Val(last_call).value).windspeedmph =
             Val(last_call).kw.wind_speed_mph

\* The dedup check of task i is about to say skip.
AboutToSkip(i) ==
    /\ running = i
    /\ pc[i] = "dedup"
    /\ last_sent_timestamps[station_id(i)] = Some(Val(obs[i]).timestamp)

\* The step of a skipping dedup check returns the skip result and runs
\* neither the transform nor the send; the result then stays as returned.
C20_SkipStep ==
    \A i \in Tasks :
        /\ AboutToSkip(i) =>
             /\ pc'[i] = "release"
             /\ task_result'[i] = Some(SyncResult(station_id(i), TRUE, None, 0))
             /\ UNCHANGED <<precipitation_cache, last_sent_timestamps,
                            windy_obs, retry, exc, sends>>
        /\ (pc[i] = "release" /\ running = i) =>
             /\ pc'[i] = "done"
             /\ task_result'[i] = task_result[i]
             /\ UNCHANGED <<precipitation_cache, last_sent_timestamps,
                            retry, sends>>

\* C20: when the dedup check says skip, sync_station returns success = true
\* with observations_sent = 0 and no error message, and performs neither a
\* transform nor a send attempt in that invocation.
C20_SkipReturnsAtOnce == [][C20_SkipStep]_vars

\* A skipped sync is about to return: nothing transformed, no retry frame.
C20_Witness ==
    \E i \in Tasks :
        /\ running = i
        /\ pc[i] = "release"
        /\ obs[i] # None
        /\ exc[i] = None
        /\ windy_obs[i] = None
        /\ retry[i] = IdleFrame
        /\ Val(task_result[i]).success
        /\ Val(task_result[i]).observations_sent = 0
        /\ Val(task_result[i]).error_message = None

\* C21: every SyncResult has observations_sent in {0, 1}; it is 1 iff the
\* send operation returned within that invocation; a result with
\* success = false has observations_sent = 0 and an error message.
C21_ObservationsSent ==
    \A i \in Tasks :
        task_result[i] # None =>
            LET r == Val(task_result[i]) IN
            /\ r.observations_sent \in {0, 1}
            /\ r.observations_sent = 1 <=> retry[i].state = "returned"
            /\ ~r.success =>
                 /\ r.observations_sent = 0
                 /\ r.error_message # None

\* In one cycle a sync was skipped and a later one failed after its mark:
\* both results say 0, the failed one with a message.
C21_Witness ==
    \E i, j \in Tasks :
        /\ i < j
        /\ pc[i] = "done"
        /\ Val(task_result[i]).success
        /\ Val(task_result[i]).observations_sent = 0
        /\ pc[j] = "done"
        /\ FailedInTransform(j)

\* The last call made on its own was clear_precipitation_cache.
IsClearCall ==
    last_call # None /\ Val(last_call).fn = "clear_precipitation_cache"

C27_Wiped ==
    IsClearCall => \A s \in Stations : precipitation_cache[s] = None

C27_NextCallIsFirst ==
    (IsClearCall /\ IsPrecipCall') =>
        /\ Val(last_call').previous = None
        /\ Val(last_call').result = <<None, None>>

\* C27: clear_precipitation_cache wipes every station's entry, and the next
\* calculate_hourly_precipitation call for any station returns (None, None)
\* as a first reading does, whatever the history.
C27_ClearWipesAll == []C27_Wiped /\ [][C27_NextCallIsFirst]_vars

\* A clear wiped the entries of both stations.
C27_Witness ==
    /\ IsClearCall
    /\ \A s \in Stations :
           /\ Val(last_call).before[s] # None
           /\ precipitation_cache[s] = None

\* What a call for station sid returns when no other station has an entry.
ResultAlone(sid, ts, mm, inch) ==
    calculate_hourly_precipitation(
        [s \in Stations |-> IF s = sid THEN precipitation_cache[s] ELSE None],
        sid, ts, mm, inch).result

C28_CallFrame ==
    IsPrecipCall' /\ last_call' # last_call =>
        LET c == Val(last_call') IN
        /\ \A s \in Stations \ {c.station_id} :
               precipitation_cache'[s] = precipitation_cache[s]
        /\ c.previous = precipitation_cache[c.station_id]
        /\ c.result = ResultAlone(c.station_id, c.timestamp, c.precip_mm,
                                  c.precip_in)

\* C28: a calculate_hourly_precipitation call for one station leaves every
\* other station's entry unchanged, and what it returns is what it would
\* return had no call for another station been made.
C28_PerStationIndependence == [][C28_CallFrame]_vars

\* A delta of 3 mm for one station while the other station's entry holds a
\* different reading.
C28_Witness ==
    /\ HasPrevious
    /\ Val(last_call).result[1] = Some(3)
    /\ \E s \in Stations \ {Val(last_call).station_id} :
           /\ precipitation_cache[s] # None
           /\ Val(precipitation_cache[s])[2] = Some(15)

\* The body of sync_station has returned for task i after a successful fetch.
SyncedAfterFetch(i) == pc[i] = "release" /\ obs[i] # None

\* C29: after every sync of a station whose fetch succeeded, skipped as a
\* duplicate or not, the precipitation cache holds the fetched reading of
\* that station.
C29_HoldsLastFetched ==
    \A i \in 1..NumTasks :
        SyncedAfterFetch(i) =>
            LET e == precipitation_cache[station_id(i)] IN
            /\ e # None
            /\ Val(e)[1] = Val(obs[i]).timestamp

\* Task i is inside the body of sync_station (orchestrator.py 41-96).
InSyncStation(i) ==
    pc[i] \in {"fetch", "dedup", "mark", "transform", "send", "backoff",
               "except"}

\* The points of sync_station the specification names as suspension points:
\* the fetch call, the send call and the backoff sleep of the retrier.
AtSuspensionPoint(i) == pc[i] \in {"fetch", "send", "backoff"}

\* Another pipeline takes a step.
OtherPipelineSteps(i) == \E j \in Tasks \ {i} : pc'[j] # pc[j]

C30_InterleaveStep ==
    \A i \in Tasks :
        InSyncStation(i) /\ OtherPipelineSteps(i) =>
            /\ AtSuspensionPoint(i)
            /\ running # i

\* C30: while a pipeline is inside sync_station, a step of another pipeline
\* is interleaved only when that pipeline is at the fetch call, the send call
\* or the backoff sleep, and has given up control; at the dedup check, the
\* mark, the transform and the handler no other pipeline runs.
C30_YieldsOnlyAtSuspensionPoints == [][C30_InterleaveStep]_vars

\* A pipeline is past its mark, about to transform, while a later pipeline
\* of the cycle has been created and has not run yet.
C30_Witness ==
    \E i, j \in 1..NumTasks :
        /\ i # j
        /\ running = i
        /\ pc[i] = "transform"
        /\ pc[j] = "created"

\* A cycle handed to the executor has not been taken back by the scheduler.
CycleInFlight == sched.pc = "executing"

\* The cycles whose results the scheduler has taken back.
CyclesReturned ==
    sched.submitted - sched.raised - (IF CycleInFlight THEN 1 ELSE 0)

C22_NoNewCycle ==
    sched.shutdown_flag =>
        /\ ~(sched.pc = "loop" /\ sched'.pc = "iteration")
        /\ (sched.pc # "iteration" => sched'.submitted = sched.submitted)

C22_InFlightFinishes ==
    /\ (CycleInFlight /\ ~CycleInFlight') =>
           /\ cycle = sched.submitted
           /\ cycle_pc \in {"returned", "raised"}
           /\ cycle_pc = "returned" =>
                /\ results # None
                /\ health'.updates = health.updates + 1
    /\ sched'.pc = "exited" => sched.pc \in {"loop", "exited"}

C22_AtExit ==
    sched.pc = "exited" =>
        /\ sched.shutdown_flag
        /\ cycle = sched.submitted
        /\ cycle_pc # "gather"
        /\ health.updates = sched.submitted - sched.raised

C23_OneInFlight ==
    /\ sched.submitted - cycle \in {0, 1}
    /\ cycle_pc = "gather" => CycleInFlight /\ cycle = sched.submitted
    /\ sched.pc \in {"waiting", "sleeping", "cooldown"} =>
         /\ cycle = sched.submitted
         /\ cycle_pc \in {"returned", "raised"}

C23_CachesOnlyInFlight ==
    cacheVars' # cacheVars => CycleInFlight /\ cycle_pc = "gather"

\* C23: at most one cycle is in flight, the wait for the next interval (and
\* the sleep after an error) begins only when the cycle has returned or
\* raised, and the dedup and precipitation caches change only within the
\* one cycle in flight.
C23_SequentialCycles == []C23_OneInFlight /\ [][C23_CachesOnlyInFlight]_vars

\* The scheduler is in the wait that follows its second cycle.
C23_Witness ==
    /\ sched.pc = "waiting"
    /\ sched.wait > 0
    /\ cycle = 2
    /\ \E s \in Stations : last_sent_timestamps[s] # None

C24_UpdateStep ==
    /\ health' # health =>
         /\ CycleInFlight /\ ~CycleInFlight'
         /\ cycle_pc = "returned"
         /\ health'.updates = health.updates + 1
         /\ health'.last_sync_success =
              (\E k \in 1..NumTasks : Val(task_result[k]).success)
         /\ UNCHANGED <<cacheVars, cycleVars, taskVars, loopVars>>
    /\ (CycleInFlight /\ ~CycleInFlight' /\ cycle_pc = "returned") =>
         health' # health

C24_OncePerCycle == health.updates = CyclesReturned

\* C24: update_health_status is called once for every cycle that returned
\* its results, by the scheduler when it takes the results back, with
\* success = at least one SyncResult of that cycle has success = true; no
\* step of the orchestration core changes the health status.
C24_HealthUpdate == [][C24_UpdateStep]_vars /\ []C24_OncePerCycle

\* Two cycles returned: the first with no success, the second with a skip,
\* which counts as a success.
C24_Witness ==
    /\ health.updates = 2
    /\ health.last_sync_success
    /\ sched.pc = "waiting"
    /\ \E k \in 1..NumTasks : ~Val(task_result[k]).success

IsLoadCall == last_call # None /\ Val(last_call).fn = "load_configuration"
LoadEnv == Val(last_call).env
LoadRaised(type) ==
    Val(last_call).raised # None /\ Val(Val(last_call).raised).type = type

\* A required variable is missing: unset, or an empty API key.
MissingVariable(env) ==
    \/ env.WINDY_API_KEY \in {None, Some(<<>>)}
    \/ env.WU_API_KEY \in {None, Some(<<>>)}
    \/ env.WU_STATION_IDS = None
    \/ env.WINDY_STATION_IDS = None

\* The characters of a value that are neither commas nor blanks, in order.
IdCharacters(cs) == SelectSeq(cs, LAMBDA c : c \notin {",", " "})

\* A list variable with no station id in it.
EmptyList(v) == IdCharacters(Val(v)) = <<>>

\* The segments between the commas of a value that hold a station id, in
\* the order given, each without the blanks around it.
GivenIds(v) ==
    LET given == SelectSeq(Split(Val(v), ","),
                           LAMBDA sid : IdCharacters(sid) # <<>>)
    IN  [k \in DOMAIN given |-> Join(Strip(given[k]))]

CountIds(v) == Len(GivenIds(v))

IntsParse(env) ==
    \A n \in {"SYNC_INTERVAL_MINUTES", "RETRY_ATTEMPTS", "RETRY_DELAY_SECONDS"} :
        env[n] = None \/ \A k \in DOMAIN Val(env[n]) : IsDigit(Val(env[n])[k])

InvalidLogLevel(env) ==
    /\ env.LOG_LEVEL # None
    /\ Join(Upper(Val(env.LOG_LEVEL))) \notin valid_log_levels

\* The ids are trimmed: no comma, and no blank at either end.
Trimmed(ids) ==
    \A k \in DOMAIN ids :
        /\ Len(ids[k]) > 0
        /\ \A raw \in Strings({",", " ", "A", "B", "1", "2"}, MaxRaw) :
               ids[k] = Join(raw) =>
                   /\ \A j \in DOMAIN raw : raw[j] # ","
                   /\ raw[1] # " " /\ raw[Len(raw)] # " "

TestSyncExited == InTestSync("exited")

\* C25: test_sync ends with a non-zero status when the configuration did
\* not load, when the cycle raised, or when the SyncResult of any station
\* has success = false; it ends with status zero only when the cycle
\* returned and every station succeeded.
C25_ExitStatus ==
    TestSyncExited =>
        LET status == Val(Val(last_call).exit_status)
            ran == cycle = 1 /\ cycle_pc = "returned"
            allSucceeded ==
                ran /\ \A k \in 1..NumTasks : Val(task_result[k]).success
        IN  /\ status \in {0, 1}
            /\ status = 0 <=> allSucceeded
            /\ Val(last_call).raised # None => status = 1

\* One station failed and the other succeeded (a skipped duplicate): the
\* command ended with status 1.
C25_Witness ==
    /\ TestSyncExited
    /\ Val(last_call).exit_status = Some(1)
    /\ cycle_pc = "returned"
    /\ \E j, k \in 1..NumTasks :
           Val(task_result[j]).success /\ ~Val(task_result[k]).success

C31_HandlerStep ==
    /\ (CycleInFlight /\ ~CycleInFlight' /\ cycle_pc = "raised") =>
           /\ sched'.pc = "cooldown"
           /\ sched'.sleep = CooldownSeconds
           /\ health' = health
    /\ (sched.pc = "cooldown" /\ sched'.pc # "cooldown") =>
           /\ sched'.pc = "loop"
           /\ sched'.sleep = 0
    /\ (sched.pc = "loop" /\ sched'.pc # "loop") =>
           sched'.pc = IF sched.shutdown_flag THEN "exited" ELSE "iteration"

C31_NoUpdateForRaised == health.updates = CyclesReturned

\* C31: when the executor raises, the scheduler does not end and makes no
\* health update for that cycle; it sleeps the cooldown of 10 seconds, goes
\* back to the loop condition, and enters the next pass unless the shutdown
\* flag is set.
C31_ExecutorRaises == [][C31_HandlerStep]_vars /\ [](C31_NoUpdateForRaised)

\* The first cycle raised, no health update was made, and the second cycle
\* has been handed to the executor.
C31_Witness ==
    /\ sched.raised = 1
    /\ sched.submitted = 2
    /\ CycleInFlight
    /\ health.updates = 0
    /\ ~sched.shutdown_flag

C40_PollStep ==
    sched.shutdown_flag =>
        /\ ~(sched.pc = "waiting" /\ sched'.pc = "sleeping")
        /\ (sched.pc = "waiting" /\ sched'.pc # "waiting") => sched'.pc = "loop"
        /\ sched'.sleep \in {sched.sleep, 0, CooldownSeconds}
        /\ sched.sleep = PollSeconds => sched'.sleep \in {PollSeconds, 0}

\* C40: once the shutdown flag is set, run_scheduler eventually returns,
\* given that a cycle in flight ends; in the wait loop no further sleep of
\* one second is begun once the flag is set, so the scheduler leaves the
\* wait when the sleep it is in, if any, is over, and it leaves the handler
\* when the cooldown is over.
C40_ShutdownLiveness ==
    /\ (sched.shutdown_flag ~> sched.pc = "exited")
    /\ [][C40_PollStep]_vars

\* The scheduler has returned after a cycle that raised and one that
\* returned its results.
C40_Witness ==
    /\ sched.pc = "exited"
    /\ sched.raised = 1
    /\ health.updates = 1

\* A cycle has completed, 15 minutes have passed since the start, and no
\* cycle of the last 15 minutes had a successful station.
NoSuccessIn15Minutes ==
    /\ last_call # None
    /\ Val(last_call).fn = "update_health_status"
    /\ clock > UnhealthyAfterSeconds
    /\ \/ Val(last_call).last_success = None
       \/ clock - Val(Val(last_call).last_success) > UnhealthyAfterSeconds

\* C32: once a cycle has completed, get_health_status reports unhealthy
\* whenever no successful sync has occurred in the last 15 minutes, also
\* when cycles keep completing and every one of them fails.
C32_UnhealthyWithoutSuccess ==
    NoSuccessIn15Minutes => ~get_health_status(health, clock).healthy

C33_EntryIsFetched ==
    \A i \in 1..NumTasks :
        SyncedAfterFetch(i) =>
            last_sent_timestamps[station_id(i)] = Some(Val(obs[i]).timestamp)

C33_OnlyFetched ==
    \A s \in Stations :
        last_sent_timestamps'[s] # last_sent_timestamps[s] =>
            \E i \in 1..NumTasks :
                /\ station_id(i) = s
                /\ obs[i] # None
                /\ Val(obs[i]).station_id = s
                /\ last_sent_timestamps'[s] = Some(Val(obs[i]).timestamp)

\* C33: when sync_station returns after a successful fetch, the dedup entry
\* of its station is the timestamp of the fetched observation, whether the
\* sync was skipped, failed or sent; and an entry only ever changes to the
\* timestamp of an observation fetched for that station.
C33_DedupEntryIsLastFetched ==
    []C33_EntryIsFetched /\ [][C33_OnlyFetched]_vars

\* A sync that failed after its fetch returns with its station's entry set
\* to the fetched timestamp, which replaced an older one.
C33_Witness ==
    \E i \in 1..NumTasks :
        /\ SyncedAfterFetch(i)
        /\ ~Val(task_result[i]).success
        /\ cycle = 2
        /\ Val(obs[i]).timestamp = 1
        /\ last_sent_timestamps[station_id(i)] = Some(1)

\* Task i has passed the dedup check and has not returned yet.
PastDedup(i) == pc[i] \in {"mark", "transform", "send", "backoff"}

\* Tasks i and j sync the same station and hold the same fetched timestamp.
SameObservation(i, j) ==
    /\ i # j
    /\ station_id(i) = station_id(j)
    /\ obs[i] # None /\ obs[j] # None
    /\ Val(obs[i]).timestamp = Val(obs[j]).timestamp

C34_AtMostOnePasses ==
    /\ \A i, j \in 1..NumTasks :
           SameObservation(i, j) => ~(PastDedup(i) /\ PastDedup(j))
    /\ \A i \in 1..NumTasks :
           pc[i] = "mark" =>
               /\ running = i
               /\ ~ShouldSkip(last_sent_timestamps, station_id(i),
                              Val(obs[i]).timestamp)

C34_CheckThenMark ==
    \A i \in 1..NumTasks :
        /\ (pc[i] = "dedup" /\ pc'[i] # "dedup") =>
               pc'[i] = IF ShouldSkip(last_sent_timestamps, station_id(i),
                                      Val(obs[i]).timestamp)
                        THEN "release" ELSE "mark"
        /\ pc[i] \in {"dedup", "mark"} =>
               /\ \A j \in Tasks \ {i} : pc'[j] = pc[j]
               /\ pc[i] = "mark" =>
                    last_sent_timestamps'[station_id(i)] \in
                        {last_sent_timestamps[station_id(i)],
                         Some(Val(obs[i]).timestamp)}

\* C34: no other pipeline takes a step between the dedup check of a
\* pipeline and its mark, so a pipeline marks an entry that still differs
\* from its timestamp; of two pipelines of one cycle that fetched the same
\* timestamp for the same station at most one passes the check and goes on
\* to the send step, and the other is skipped.
C34_CheckAndMarkAtomic == []C34_AtMostOnePasses /\ [][C34_CheckThenMark]_vars

\* The same station is listed twice and both pipelines fetched the same
\* timestamp: the first passed the check and marked, the second is skipped.
C34_Witness ==
    \E i, j \in 1..NumTasks :
        /\ i < j
        /\ station_id(i) = station_id(j)
        /\ pc[i] = "done" /\ FailedInTransform(i)
        /\ Skipped(j)
        /\ last_marked[station_id(j)] = Some(Val(obs[j]).timestamp)
        /\ \A t \in Timestamps : sends[station_id(j)][t] = 0
        /\ cycle = 1

\* The transform of task i raises in this step.
TransformFails(i) == running = i /\ pc[i] = "transform" /\ pc'[i] = "except"

C35_FailStep ==
    \A i \in 1..NumTasks :
        /\ TransformFails(i) =>
               /\ last_sent_timestamps[station_id(i)] =
                      Some(Val(obs[i]).timestamp)
               /\ UNCHANGED <<last_sent_timestamps, precipitation_cache>>
               /\ exc'[i] # None
        /\ (running = i /\ pc[i] = "dedup" /\ pc'[i] # "dedup"
              /\ last_sent_timestamps[station_id(i)] =
                     Some(Val(obs[i]).timestamp)) =>
               /\ task_result'[i] = Some(SyncResult(station_id(i), TRUE, None, 0))
               /\ pc'[i] = "release"

C35_FailedResult ==
    \A i \in 1..NumTasks :
        (pc[i] \in {"except", "release"} /\ obs[i] # None /\ exc[i] # None) =>
            /\ last_sent_timestamps[station_id(i)] = Some(Val(obs[i]).timestamp)
            /\ pc[i] = "release" =>
                 /\ ~Val(task_result[i]).success
                 /\ Val(task_result[i]).observations_sent = 0

\* C35: when the transform fails for an observation with timestamp t, the
\* dedup entry is t already and the precipitation entry is not changed; the
\* sync returns success = false, and a later sync of the station that
\* fetches t again is skipped with success = true and observations_sent = 0.
C35_TransformFailure == []C35_FailedResult /\ [][C35_FailStep]_vars

\* In the second cycle a sync is skipped for the timestamp whose transform
\* failed in the first cycle; nothing was ever sent for it.
C35_Witness ==
    \E i \in 1..NumTasks :
        /\ cycle = 2
        /\ NumTasks = 1
        /\ Skipped(i)
        /\ Val(task_result[i]).observations_sent = 0
        /\ sends[station_id(i)][Val(obs[i]).timestamp] = 0
        /\ precipitation_cache[station_id(i)] = None

\* The fetch of task i has raised and sync_station has not returned yet.
FetchFailed(i) ==
    pc[i] \in {"fetch", "except", "release"} /\ obs[i] = None /\ exc[i] # None

C37_FetchFailedState ==
    \A i \in 1..NumTasks :
        /\ pc[i] = "fetch" => exc[i] = None /\ obs[i] = None
        /\ FetchFailed(i) =>
             /\ running = i
             /\ retry[i] = IdleFrame
             /\ windy_obs[i] = None
             /\ pc[i] = "release" =>
                  /\ ~Val(task_result[i]).success
                  /\ Val(task_result[i]).observations_sent = 0

C37_FetchFailedStep ==
    \A i \in 1..NumTasks :
        /\ (running = i /\ pc[i] = "fetch" /\ pc'[i] # "fetch") =>
               /\ UNCHANGED <<cacheVars, sends>>
               /\ pc'[i] = IF exc'[i] # None THEN "except" ELSE "dedup"
        /\ (pc[i] # "fetch" /\ pc'[i] = "fetch") =>
               pc[i] \in {"created", "sem_woken"}
        /\ FetchFailed(i) => UNCHANGED <<cacheVars, sends>>

\* C37: when the fetch of sync_station fails, the sync returns success =
\* false, no dedup entry and no precipitation entry of any station changes
\* and the send step is not entered; the fetch is called once in a sync and
\* not called again after it raised.
C37_FetchFailure == []C37_FetchFailedState /\ [][C37_FetchFailedStep]_vars

\* A failed fetch has returned its failure while the dedup entry of its
\* station holds the mark of an earlier sync.
C37_Witness ==
    \E i \in 1..NumTasks :
        /\ FetchFailed(i)
        /\ pc[i] = "release"
        /\ last_sent_timestamps[station_id(i)] # None

C38_NoAttempt ==
    /\ config.retry_attempts <= 0
    /\ rb.max_attempts = config.retry_attempts
    /\ rb.calls = <<>> /\ rb.sleeps = <<>>
    /\ rb.state \in {"loop", "raised"}
    /\ rb.state = "raised" =>
         /\ Val(rb.raised).type = "MaxRetriesExceeded"
         /\ rb.returned = None

C38_NoSyncSucceeds ==
    \A i \in 1..NumTasks :
        (pc[i] = "release" /\ task_result[i] # Some(SkippedResult(station_id(i))))
            => /\ ~Val(task_result[i]).success
               /\ Val(task_result[i]).observations_sent = 0
               /\ obs[i] # None =>
                    last_sent_timestamps[station_id(i)] =
                        Some(Val(obs[i]).timestamp)

C38_RaisesAtOnce == rb.state = "loop" /\ rb' # rb => rb'.state = "raised"

\* C38: load_configuration accepts RETRY_ATTEMPTS of zero or less; with it
\* retry_with_backoff calls the operation not once, sleeps not once and
\* raises MaxRetriesExceeded in its first step, and every sync that is not
\* skipped returns success = false with observations_sent = 0 after the
\* dedup entry was set to the fetched timestamp.
C38_ZeroRetryAttempts ==
    /\ [](C38_NoAttempt /\ C38_NoSyncSucceeds)
    /\ [][C38_RaisesAtOnce]_vars

\* With RETRY_ATTEMPTS = 0 the retrier has raised without a call, and a
\* sync that passed the dedup check has failed with its timestamp marked.
C38_Witness ==
    /\ config.retry_attempts = 0
    /\ rb.state = "raised"
    /\ \E i \in 1..NumTasks :
           /\ pc[i] = "release"
           /\ FailedInTransform(i)
           /\ last_sent_timestamps[station_id(i)] = Some(Val(obs[i]).timestamp)

\* Every station of the cycle that has returned was skipped as a duplicate.
AllSkipped ==
    /\ cycle_pc = "returned"
    /\ \A k \in 1..NumTasks :
           task_result[k] = Some(SkippedResult(station_id(k)))

C39_SuccessMeansSentOrSkipped ==
    \A i \in 1..NumTasks :
        (task_result[i] # None /\ Val(task_result[i]).success) =>
            \/ /\ task_result[i] = Some(SkippedResult(station_id(i)))
               /\ retry[i] = IdleFrame
            \/ /\ retry[i].state = "returned"
               /\ Val(task_result[i]).observations_sent = 1

C39_AllSkippedIsSuccess ==
    (AllSkipped /\ health' # health) =>
        /\ health'.last_sync_success
        /\ \A k \in 1..NumTasks : Val(task_result[k]).observations_sent = 0

\* C39: a SyncResult has success = true only when the observation was sent
\* in this invocation or was skipped as a duplicate; a cycle in which every
\* station is skipped, also one whose timestamp failed before, is reported
\* to the health status as a success although it sent nothing.
C39_SkipCountsAsSuccess ==
    []C39_SuccessMeansSentOrSkipped /\ [][C39_AllSkippedIsSuccess]_vars

\* The second cycle skipped every station, the health status holds a
\* success, and no observation was ever sent.
C39_Witness ==
    /\ AllSkipped
    /\ cycle = 2
    /\ health.updates = 2
    /\ health.last_sync_success
    /\ \A s \in Stations, t \in Timestamps : sends[s][t] = 0

====
